---- MODULE Spec2Model ----
(***************************************************************************)
(* Model of the spreadsheet append and reconciliation code of the          *)
(* auto-trading-journal repository:                                        *)
(*   - SheetManager.find_last_row_with_column_info   (extent scan)         *)
(*   - SheetManager.check_duplicates / batch_insert_trades                 *)
(*   - StockDataProcessor.process_trading_log        (one run over a sheet)*)
(*   - SheetWriter.find_last_row / insert_trades / get_existing_keys       *)
(*   - Trade.duplicate_key / _normalize_num          (key normalisation)   *)
(* Three specifications share the module: Spec (append runs against a      *)
(* sheet that a human may edit between runs), SpecScan (the extent scan as *)
(* a function of a GridData snapshot) and SpecKey (duplicate keys of a     *)
(* record before and after a round trip through the sheet).                *)
(***************************************************************************)
EXTENDS Integers, Sequences, FiniteSets, TLC

VARIABLES
    impl,      \* Spec: which class drives the sheet, "manager" or "writer"
    sheet,     \* Spec: the backing grid, row -> column -> displayed string
    runs,      \* Spec: number of append runs made so far
    edits,     \* Spec: number of human edits made so far
    last,      \* Spec: record of the most recent append run
    prev,      \* Spec: record of the run before it
    rows,      \* SpecScan: the GridData rowData handed to the scan
    extent,    \* SpecScan: the scan's result <<next row, start col, end col>>
    trade,     \* SpecKey: the freshly parsed record and the layout it goes to
    cells,     \* SpecKey: the grid row read back for that record
    keys,      \* SpecKey: duplicate_key() and the key get_existing_keys builds
    norm,      \* SpecKey: _normalize_num of each representation of the quantity
    fetch,     \* SpecScan: how the metadata and grid fetches of the scan ended
    group,     \* SpecGroup: the row indices given to the grouper and its result
    retry,     \* SpecRetry: one call of _retry_with_backoff in progress
    batch,     \* SpecBatch: one call of batch_insert_trades in progress
    book,      \* SpecBook: the spreadsheet's sheets and the caches kept on them
    paint,     \* SpecColour: one call of apply_date_colors after a successful write
    numfmt,    \* SpecFormat: one call of _apply_number_formats and the calls it made
    pct,       \* SpecRate: a profit rate, the cell written for it and the rate read back
    reach,     \* SpecReach: a sheet's size and the rows the reads before an append fetch
    reader,    \* SpecRead: one call of read_all_trades in progress
    dry,       \* SpecDry: one call of process_trading_log and the requests it sent
    flow,      \* SpecInsert: one sheet's append and the requests sent for it so far
    streak     \* SpecStreak: the sell records handed to _calc_streaks and what it returned

vars == <<impl, sheet, runs, edits, last, prev, rows, extent, trade, cells, keys, norm,
          fetch, group, retry, batch, book, paint, numfmt, pct, reach, reader, dry, flow, streak>>

-----------------------------------------------------------------------------
(* Bounds of the model *)

\* SheetManager(empty_row_threshold=...): the configured threshold, kept small
EmptyRowThreshold == 2
\* number of rows of a GridData snapshot in SpecScan
MaxScanRows == 4
\* gridProperties.rowCount and columnCount of the sheet in Spec
RowCount == 5
ColumnCount == 9
\* a human edits cells of columns 1..MaxEditCol, at most MaxEdits times
MaxEditCol == 2
MaxEdits == 1
\* append runs per behaviour and records per run
MaxRuns == 2
MaxTrades == 2

\* largest row index handed to the grouper in SpecGroup
MaxIndex == 12

\* max_retries ranges over 1..MaxRetries, and a behaviour of SpecRetry makes
\* at most MaxInvocations calls of _retry_with_backoff
MaxRetries == 4
MaxInvocations == 2

\* sheets with a prepared write in one call of batch_insert_trades
MaxSheets == 3

\* batch_insert_trades: _retry_with_backoff(..., max_retries=3)
CallSiteMaxRetries == 3
\* SheetWriter.find_last_row: "if empty_count >= 100"
WriterEmptyThreshold == 100
\* len(DOMESTIC_HEADERS)
DomesticColumns == 9

-----------------------------------------------------------------------------
(* GridData cells: the effectiveValue of a cell is absent, or carries one  *)
(* of stringValue / numberValue / boolValue.  val is str(actual_value).    *)

NoCell == [kind |-> "none", val |-> ""]
StrCell(s) == [kind |-> "str", val |-> s]
NumCell(s) == [kind |-> "num", val |-> s]
BoolCell(s) == [kind |-> "bool", val |-> s]

\* strings s with s.strip() == ''
WhitespaceStrings == {"", " "}

Min(S) == CHOOSE x \in S : \A y \in S : x <= y
Max(S) == CHOOSE x \in S : \A y \in S : x >= y

\* any(key in cell_value for key in ['numberValue', 'stringValue', 'boolValue'])
HasEffectiveValue(cell) == cell.kind \in {"num", "str", "bool"}

\* the inner loop over a row's cells that clears is_empty
RowIsEmpty(values) == \A i \in 1..Len(values) : ~HasEffectiveValue(values[i])

\* step 1 of the scan: the loop over rows with last_data_row and
\* empty_row_count, breaking once the count reaches the threshold
RECURSIVE ScanRows(_, _, _, _, _)
ScanRows(rs, i, last_data_row, empty_row_count, threshold) ==
    IF i > Len(rs) THEN last_data_row
    ELSE IF RowIsEmpty(rs[i])
         THEN IF empty_row_count + 1 >= threshold
              THEN last_data_row
              ELSE ScanRows(rs, i + 1, last_data_row, empty_row_count + 1, threshold)
         ELSE ScanRows(rs, i + 1, i, 0, threshold)

LastDataRow(rs, threshold) == ScanRows(rs, 1, 1, 0, threshold)

\* the data-cell test without the strip() comparison
IsDataCellNoStrip(cell) == HasEffectiveValue(cell)

\* actual_value is not None and str(actual_value).strip() != ''
IsDataCell(cell) == HasEffectiveValue(cell) /\ cell.val \notin WhitespaceStrings

\* step 2 of the scan: the loop over the last data row's cells; start is 0
\* while last_row_start_col is None
RECURSIVE ScanColumns(_, _, _, _)
ScanColumns(values, col_idx, start, end) ==
    IF col_idx > Len(values) THEN <<start, end>>
    ELSE IF IsDataCell(values[col_idx])
         THEN ScanColumns(values, col_idx + 1,
                          IF start = 0 THEN col_idx ELSE start, col_idx)
         ELSE ScanColumns(values, col_idx + 1, start, end)

\* the scan with step 2 applied to the first row instead of the last data row
ExtentOfRowsFirstRow(rs, threshold) ==
    LET last_data_row == LastDataRow(rs, threshold)
        found == IF Len(rs) >= 1 THEN ScanColumns(rs[1], 1, 0, 0) ELSE <<0, 0>>
        start_col == IF found[1] = 0 THEN 2 ELSE found[1]
        end_col == IF found[2] < start_col THEN start_col + 7 ELSE found[2]
    IN  <<last_data_row + 1, start_col, end_col>>

\* the scan with the threshold test off by one (> instead of >=)
ExtentOfRowsLateBreak(rs, threshold) ==
    LET last_data_row == LastDataRow(rs, threshold + 1)
        found == IF last_data_row > 0 /\ last_data_row <= Len(rs)
                 THEN ScanColumns(rs[last_data_row], 1, 0, 0)
                 ELSE <<0, 0>>
        start_col == IF found[1] = 0 THEN 2 ELSE found[1]
        end_col == IF found[2] < start_col THEN start_col + 7 ELSE found[2]
    IN  <<last_data_row + 1, start_col, end_col>>

\* the scan returning the last data row itself instead of the row after it
ExtentOfRowsLastRow(rs, threshold) ==
    LET last_data_row == LastDataRow(rs, threshold)
        found == IF last_data_row > 0 /\ last_data_row <= Len(rs)
                 THEN ScanColumns(rs[last_data_row], 1, 0, 0)
                 ELSE <<0, 0>>
        start_col == IF found[1] = 0 THEN 2 ELSE found[1]
        end_col == IF found[2] < start_col THEN start_col + 7 ELSE found[2]
    IN  <<last_data_row, start_col, end_col>>

\* the scan without the defaults of "if last_row_start_col is None" and
\* "if last_row_end_col < last_row_start_col"
ExtentOfRowsNoDefault(rs, threshold) ==
    LET last_data_row == LastDataRow(rs, threshold)
        found == IF last_data_row > 0 /\ last_data_row <= Len(rs)
                 THEN ScanColumns(rs[last_data_row], 1, 0, 0)
                 ELSE <<0, 0>>
    IN  <<last_data_row + 1, found[1], found[2]>>

\* find_last_row_with_column_info from "rows = sheet_data[...]" on:
\* (last_data_row + 1, last_row_start_col, last_row_end_col)
ExtentOfRows(rs, threshold) ==
    LET last_data_row == LastDataRow(rs, threshold)
        found == IF last_data_row > 0 /\ last_data_row <= Len(rs)
                 THEN ScanColumns(rs[last_data_row], 1, 0, 0)
                 ELSE <<0, 0>>
        start_col == IF found[1] = 0 THEN 2 ELSE found[1]
        end_col == IF found[2] < start_col THEN start_col + 7 ELSE found[2]
    IN  <<last_data_row + 1, start_col, end_col>>

-----------------------------------------------------------------------------
(* SpecScan: the scan applied to bounded GridData snapshots *)

V == StrCell("x")
W == StrCell(" ")
E == StrCell("")
N == NumCell("123")
B == BoolCell("True")

\* rows as the Sheets API and the unit tests produce them: no values at all,
\* explicit empty cells, leading / interior / trailing empty cells,
\* whitespace-only and empty-string cells, and the three value kinds
RowShapes ==
    { <<>>, <<NoCell, NoCell>>, <<V, V>>, <<NoCell, V, V>>, <<V, NoCell, V>>,
      <<NoCell, NoCell, V>>, <<W>>, <<W, V, NoCell>>, <<E, E, N>>,
      <<N, B, NoCell, V>>, <<NoCell, V, NoCell, NoCell>>, <<E>> }

Grids == UNION { [1..n -> RowShapes] : n \in 0..MaxScanRows }

Unscanned == <<0, 0, 0>>

IdleRun == [kind |-> "none"]

InitScan ==
    /\ rows \in Grids
    /\ extent = Unscanned
    /\ impl = "none" /\ sheet = <<>> /\ runs = 0 /\ edits = 0
    /\ last = IdleRun /\ prev = IdleRun
    /\ trade = <<>> /\ cells = <<>> /\ keys = <<>> /\ norm = <<>>
    /\ fetch = <<>> /\ group = <<>> /\ retry = <<>> /\ batch = <<>> /\ book = <<>>
    /\ streak = <<>>
    /\ flow = <<>>
    /\ dry = <<>>
    /\ reader = <<>>
    /\ reach = <<>>
    /\ pct = <<>>
    /\ numfmt = <<>>
    /\ paint = <<>>

\* how the two fetches of the scan can end: get_spreadsheet_metadata returns
\* the metadata, returns {} (HttpError), returns metadata without the sheet,
\* or raises; get_sheet_data returns the grid, returns {} (HttpError) or
\* raises.  The grid is not fetched when the metadata fetch raises.
FetchPlans ==
    { [metadata |-> m, grid |-> g] :
        m \in {"ok", "empty", "no sheet"}, g \in {"ok", "empty", "raises"} }
    \cup { [metadata |-> "raises", grid |-> "not called"] }

Raised == [raised |-> TRUE, ret |-> Unscanned]
Returned(value) == [raised |-> FALSE, ret |-> value]

\* the body of the try block of find_last_row_with_column_info; without
\* metadata, or without the sheet in it, the range is A1:Z10000 instead of
\* A1:Z{row_count}
ScanBody(plan, rs) ==
    IF plan.metadata = "raises" \/ plan.grid = "raises" THEN Raised
    ELSE IF plan.grid = "empty" THEN Returned(<<2, 2, 9>>)
    ELSE Returned(ExtentOfRows(rs, EmptyRowThreshold))

\* a try block without the except clause
TryWithoutExcept(body, fallback) == body

\* try: body / except Exception: return fallback
TryExcept(body, fallback) == IF body.raised THEN Returned(fallback) ELSE body

Scan(plan) ==
    /\ extent = Unscanned
    /\ fetch = <<>>
    /\ \E result \in {TryExcept(ScanBody(plan, rows), <<2, 2, 9>>)} :
          /\ extent' = result.ret
          /\ fetch' = [metadata |-> plan.metadata, grid |-> plan.grid,
                       raised |-> result.raised]
    /\ UNCHANGED <<streak, flow, dry, reader, reach, pct, numfmt, paint, impl, sheet, runs, edits, last, prev, rows, trade, cells, keys, norm,
                   group, retry, batch, book>>

NextScan == \E plan \in FetchPlans : Scan(plan)

SpecScan == InitScan /\ [][NextScan]_vars

-----------------------------------------------------------------------------
(* Python values and strings.  A str is a sequence of tokens: the          *)
(* characters of a number, or a whole word for names and dates, so that    *)
(* replace(',', '') and the digits of str(int) are computed, not assumed.  *)
(* A number carries hundredths: x = 250 is the float 2.5.                  *)

PyNone == [t |-> "none", x |-> 0, s |-> <<>>]
PyInt(n) == [t |-> "int", x |-> n, s |-> <<>>]
PyFloat(c) == [t |-> "float", x |-> c, s |-> <<>>]
PyStr(chars) == [t |-> "str", x |-> 0, s |-> chars]

DigitChars == <<"0", "1", "2", "3", "4", "5", "6", "7", "8", "9">>
Digit(d) == DigitChars[d + 1]

\* str(n) for an int n >= 0
RECURSIVE IntChars(_)
IntChars(n) == IF n < 10 THEN <<Digit(n)>> ELSE IntChars(n \div 10) \o <<Digit(n % 10)>>

\* str(v) for a float v = c / 100 (shortest repr: "2.0", "2.5", "150.25")
FloatChars(c) ==
    IntChars(c \div 100) \o <<".">> \o
        ( IF c % 100 = 0 THEN <<"0">>
          ELSE IF c % 10 = 0 THEN <<Digit((c % 100) \div 10)>>
          ELSE <<Digit((c % 100) \div 10), Digit(c % 10)>> )

\* s.replace(',', '')
StripCommas(chars) == SelectSeq(chars, LAMBDA ch : ch # ",")

\* Trade._num_str(v): str(int(v)) if v == int(v) else str(v)
NumStr(c) == IF c % 100 = 0 THEN IntChars(c \div 100) ELSE FloatChars(c)

\* normalisation that keeps the commas of a string value
NormalizeNumKeepCommas(v) ==
    IF v.t = "none" THEN <<>>
    ELSE IF v.t = "int" THEN IntChars(v.x)
    ELSE IF v.t = "float" THEN NumStr(v.x)
    ELSE v.s

\* _normalize_num(v)
NormalizeNum(v) ==
    IF v.t = "none" THEN <<>>
    ELSE IF v.t = "int" THEN IntChars(v.x)
    ELSE IF v.t = "float" THEN NumStr(v.x)
    ELSE StripCommas(v.s)

\* bool(v): None, "", 0 and 0.0 are falsy
Truthy(v) ==
    IF v.t = "none" THEN FALSE
    ELSE IF v.t = "str" THEN v.s # <<>>
    ELSE v.x # 0

\* str(v or "")
StrOrEmpty(v) ==
    IF ~Truthy(v) THEN <<>>
    ELSE IF v.t = "str" THEN v.s
    ELSE IF v.t = "int" THEN IntChars(v.x)
    ELSE FloatChars(v.x)

\* Trade.duplicate_key()
DuplicateKey(tr) ==
    <<tr.date, tr.trade_type, tr.stock_name, NumStr(tr.quantity), NumStr(tr.price)>>

\* Trade.to_domestic_row(): the nine values handed to the write
ToDomesticRow(tr) ==
    << PyStr(tr.date), PyStr(tr.trade_type), PyStr(tr.stock_name),
       PyFloat(tr.quantity), PyFloat(tr.price), PyFloat(tr.amount),
       PyFloat(tr.fee), PyFloat(tr.profit),
       [t |-> "rate", x |-> IF tr.profit_rate # 0 THEN tr.profit_rate ELSE 0, s |-> <<>>] >>

\* Trade.to_foreign_row(): the fifteen values handed to the write
ToForeignRow(tr) ==
    << PyStr(tr.date), PyStr(tr.trade_type), PyStr(tr.currency), PyStr(tr.stock_code),
       PyStr(tr.stock_name), PyFloat(tr.quantity), PyFloat(tr.price), PyFloat(tr.amount),
       PyFloat(tr.exchange_rate), PyFloat(tr.amount_krw),
       PyFloat(tr.fee), PyFloat(tr.tax), PyFloat(tr.profit), PyFloat(tr.profit_krw),
       [t |-> "rate", x |-> IF tr.profit_rate # 0 THEN tr.profit_rate ELSE 0, s |-> <<>>] >>

-----------------------------------------------------------------------------
(* A cell of get_raw_grid_data: effectiveValue.stringValue (sv),           *)
(* effectiveValue.numberValue (nv) and formattedValue (fv).                *)

RawCell(sv, nv, fv) == [sv |-> sv, nv |-> nv, fv |-> fv]

\* the serial number the sheet keeps for a date entered as text
DateSerial(d) == IF d = <<"2025-01-02">> THEN 45659 ELSE 45660

\* the thousands-grouped text of an int n >= 0 ("28,230")
RECURSIVE GroupedChars(_)
GroupedChars(n) ==
    IF n < 1000 THEN IntChars(n)
    ELSE GroupedChars(n \div 1000) \o <<",">> \o
         <<Digit((n % 1000) \div 100), Digit((n % 100) \div 10), Digit(n % 10)>>

\* the thousands-grouped text of the number c / 100 ("28,230", "1,234.5")
GroupedNumChars(c) ==
    IF c % 100 = 0 THEN GroupedChars(c \div 100)
    ELSE GroupedChars(c \div 100) \o SubSeq(FloatChars(c), Len(IntChars(c \div 100)) + 1,
                                           Len(FloatChars(c)))

\* the ways the number c / 100 comes back from the grid: a JSON number without
\* a fraction (int), a JSON number with one (float), text with thousands
\* separators (grouped) or text without them (plain)
Representations == {"int", "float", "grouped", "plain"}
NumberCell(c, rep) ==
    IF rep = "int" /\ c % 100 = 0 THEN RawCell(PyNone, PyInt(c \div 100), GroupedNumChars(c))
    ELSE IF rep = "grouped" THEN RawCell(PyStr(GroupedNumChars(c)), PyNone, GroupedNumChars(c))
    ELSE IF rep = "plain" THEN RawCell(PyStr(NumStr(c)), PyNone, NumStr(c))
    ELSE RawCell(PyNone, PyFloat(c), GroupedNumChars(c))

\* batch_update_cells with valueInputOption USER_ENTERED followed by
\* get_raw_grid_data: a date string is kept as a serial number and displayed
\* as entered, other text stays text, "" leaves the cell without a value
WrittenCell(v, isDate, rep) ==
    IF v.t = "str"
    THEN IF v.s = <<>> THEN RawCell(PyNone, PyNone, <<>>)
         ELSE IF isDate THEN RawCell(PyNone, PyInt(DateSerial(v.s)), v.s)
         ELSE RawCell(v, PyNone, v.s)
    ELSE IF v.t = "rate" THEN RawCell(PyNone, v, <<>>)
    ELSE NumberCell(v.x, rep)

\* _get_cell_value(cell): ev.get("stringValue") or ev.get("numberValue")
GetCellValue(cell) == IF Truthy(cell.sv) THEN cell.sv ELSE cell.nv

\* the key with the date taken from the effective value (the serial number)
\* instead of the formatted value
ExistingKeySerialDate(values, is_foreign) ==
    IF Len(values) < 5 THEN <<>>
    ELSE IF values[1].fv = <<>> THEN <<>>
    ELSE LET date_val == StrOrEmpty(GetCellValue(values[1]))
             trade_type == StrOrEmpty(GetCellValue(values[2]))
         IN  IF is_foreign /\ Len(values) >= 7
             THEN << date_val, trade_type, StrOrEmpty(GetCellValue(values[5])),
                     NormalizeNum(GetCellValue(values[6])),
                     NormalizeNum(GetCellValue(values[7])) >>
             ELSE << date_val, trade_type, StrOrEmpty(GetCellValue(values[3])),
                     NormalizeNum(GetCellValue(values[4])),
                     NormalizeNum(GetCellValue(values[5])) >>

\* the body of get_existing_keys' loop for one row: <<>> when the row is
\* skipped, else the one key it adds
ExistingKey(values, is_foreign) ==
    IF Len(values) < 5 THEN <<>>
    ELSE IF values[1].fv = <<>> THEN <<>>
    ELSE LET date_val == values[1].fv
             trade_type == StrOrEmpty(GetCellValue(values[2]))
         IN  IF is_foreign /\ Len(values) >= 7
             THEN << date_val, trade_type, StrOrEmpty(GetCellValue(values[5])),
                     NormalizeNum(GetCellValue(values[6])),
                     NormalizeNum(GetCellValue(values[7])) >>
             ELSE << date_val, trade_type, StrOrEmpty(GetCellValue(values[3])),
                     NormalizeNum(GetCellValue(values[4])),
                     NormalizeNum(GetCellValue(values[5])) >>

-----------------------------------------------------------------------------
(* SpecKey: a record is written as a row, read back, and keyed *)

KeyDates == { <<"2025-01-02">>, <<"2025-01-03">> }
\* the two operation types of the journal (buy and sell)
KeyTypes == { <<"BUY">>, <<"SELL">> }
KeyNames == { <<"SampleCo">>, <<"TIGER TOP10">> }
\* quantities and prices in hundredths: 0, 2, 2.5, 28230 and 1, 150.25, 1234.5, 28230
KeyQuantities == {0, 200, 250, 2823000}
KeyPrices == {100, 15025, 123450, 2823000}
\* profit rates in hundredths of a percent: 0 and 14.68
KeyRates == {0, 1468}

KeyTrades ==
    { [ date |-> d, trade_type |-> ty, stock_name |-> nm, stock_code |-> <<"TICK">>,
        quantity |-> q, price |-> p, amount |-> 0, currency |-> <<"USD">>,
        exchange_rate |-> 100, amount_krw |-> 0, fee |-> 0, tax |-> 0,
        profit |-> 0, profit_krw |-> 0, profit_rate |-> pr ] :
        d \in KeyDates, ty \in KeyTypes, nm \in KeyNames,
        q \in KeyQuantities, p \in KeyPrices, pr \in KeyRates }

InitKey ==
    /\ trade \in [rec : KeyTrades, is_foreign : BOOLEAN]
    /\ cells = <<>> /\ keys = <<>> /\ norm = <<>>
    /\ fetch = <<>> /\ group = <<>> /\ retry = <<>> /\ batch = <<>> /\ book = <<>>
    /\ streak = <<>>
    /\ flow = <<>>
    /\ dry = <<>>
    /\ reader = <<>>
    /\ reach = <<>>
    /\ pct = <<>>
    /\ numfmt = <<>>
    /\ paint = <<>>
    /\ rows = <<>> /\ extent = Unscanned
    /\ impl = "none" /\ sheet = <<>> /\ runs = 0 /\ edits = 0
    /\ last = IdleRun /\ prev = IdleRun

\* the row of insert_trades for one record, as the grid returns it afterwards
\* (quantity and price each in one of the representations)
InsertRow(repQ, repP) ==
    /\ cells = <<>>
    /\ LET row == IF trade.is_foreign THEN ToForeignRow(trade.rec)
                  ELSE ToDomesticRow(trade.rec)
           qcol == IF trade.is_foreign THEN 6 ELSE 4
       IN  cells' = [ i \in 1..Len(row) |->
                        WrittenCell(row[i], i = 1,
                                    IF i = qcol THEN repQ
                                    ELSE IF i = qcol + 1 THEN repP ELSE "float") ]
    /\ UNCHANGED <<streak, flow, dry, reader, reach, pct, numfmt, paint, impl, sheet, runs, edits, last, prev, rows, extent, trade, keys, norm, fetch, group, retry, batch, book>>

\* get_existing_keys over the row, and duplicate_key() of the parsed record
LoadKeys ==
    /\ cells # <<>> /\ keys = <<>>
    /\ keys' = [ fresh |-> DuplicateKey(trade.rec),
                 existing |-> ExistingKey(cells, trade.is_foreign) ]
    /\ UNCHANGED <<streak, flow, dry, reader, reach, pct, numfmt, paint, impl, sheet, runs, edits, last, prev, rows, extent, trade, cells, norm, fetch, group, retry, batch, book>>

\* _normalize_num applied to the float, the int, the decimal string and the
\* comma-grouped string of the quantity, and once more to its own output
NormalizeReps ==
    /\ norm = <<>>
    /\ LET c == trade.rec.quantity
           integral == c % 100 = 0
           flt == NormalizeNum(PyFloat(c))
       IN  norm' = [ float |-> flt,
                     int |-> IF integral THEN NormalizeNum(PyInt(c \div 100)) ELSE flt,
                     decimal |-> NormalizeNum(PyStr(NumStr(c))),
                     grouped |-> NormalizeNum(PyStr(GroupedNumChars(c))),
                     again |-> NormalizeNum(PyStr(NormalizeNum(PyStr(GroupedNumChars(c))))),
                     num_str |-> NumStr(c) ]
    /\ UNCHANGED <<streak, flow, dry, reader, reach, pct, numfmt, paint, impl, sheet, runs, edits, last, prev, rows, extent, trade, cells, keys, fetch, group, retry, batch, book>>

NextKey ==
    \/ \E repQ \in Representations, repP \in Representations : InsertRow(repQ, repP)
    \/ LoadKeys
    \/ NormalizeReps

SpecKey == InitKey /\ [][NextKey]_vars

-----------------------------------------------------------------------------
(* Spec: append runs against one sheet.  sheet[r][c] is the text the grid  *)
(* displays in row r, column c ("" for a cell without a value); this is    *)
(* what values().get returns under FORMATTED_VALUE.                        *)

\* the dates of the records, in increasing order
Dates == <<"2025-01-02", "2025-01-03">>

\* the parsed records of one input file: two that differ only in quantity
\* and one of another instrument on a later date
TradeSet ==
    { [stock_name |-> "SampleCo", date |-> Dates[1], quantity |-> 1],
      [stock_name |-> "SampleCo", date |-> Dates[1], quantity |-> 2],
      [stock_name |-> "OtherCo", date |-> Dates[2], quantity |-> 1] }

TradeLists == UNION { [1..n -> TradeSet] : n \in 0..MaxTrades }

\* trades.sort(key=lambda t: t.date): a stable sort
RECURSIVE SortByDate(_, _)
SortByDate(trades, k) ==
    IF k > Len(Dates) THEN <<>>
    ELSE SelectSeq(trades, LAMBDA t : t.date = Dates[k]) \o SortByDate(trades, k + 1)

\* DomesticTrade.to_sheet_row(): name, broker, date, type, price, quantity,
\* fee (empty), total; "W" stands for the won sign, the unit price is 100
ToSheetRow(t) ==
    << t.stock_name, "broker", t.date, "BUY", "W100", ToString(t.quantity), "",
       "W" \o ToString(100 * t.quantity) >>

\* Trade.to_domestic_row() as the grid displays it: date, type, name,
\* quantity, price, amount, fee, profit, profit rate
DomesticRowText(t) ==
    << t.date, "BUY", t.stock_name, ToString(t.quantity), "100",
       ToString(100 * t.quantity), "0", "0", "0" >>

\* the adjustment that truncates but never pads
FitRowTruncateOnly(row, num_cols) ==
    IF Len(row) > num_cols THEN SubSeq(row, 1, num_cols) ELSE row

\* row[:num_cols], or row.extend([''] * (num_cols - len(row)))
FitRow(row, num_cols) ==
    IF Len(row) > num_cols THEN SubSeq(row, 1, num_cols)
    ELSE row \o [i \in 1..(num_cols - Len(row)) |-> ""]

\* one row of values().get: trailing empty cells are left out
RowValues(sh, r, ncols) ==
    LET filled == {c \in 1..ncols : sh[r][c] # ""}
    IN  IF filled = {} THEN <<>>
        ELSE [c \in 1..Max(filled) |-> StrCell(sh[r][c])]

\* get_sheet_data(sheet_name, "A{r0}:{ncols}{row_count}"): trailing empty
\* rows are left out and every value arrives as a stringValue
GetSheetData(sh, r0, ncols) ==
    LET filled == {r \in r0..RowCount : RowValues(sh, r, ncols) # <<>>}
    IN  IF filled = {} THEN <<>>
        ELSE [i \in 1..(Max(filled) - r0 + 1) |-> RowValues(sh, r0 + i - 1, ncols)]

\* SheetManager.find_last_row_with_column_info(sheet_name)
FindLastRowWithColumnInfo(sh) ==
    ExtentOfRows(GetSheetData(sh, 1, ColumnCount), EmptyRowThreshold)

\* SheetWriter.find_last_row(sheet_name): column A only
FindLastRow(sh) == LastDataRow(GetSheetData(sh, 1, 1), WriterEmptyThreshold) + 1

\* check_duplicates: existing_trades, the (stock_name, date) pairs of the
\* rows of A2:C{row_count} that have three values, A and C non-empty
ExistingTrades(sh) ==
    LET rs == GetSheetData(sh, 2, 3)
    IN  { <<rs[i][1].val, rs[i][3].val>> :
            i \in { j \in 1..Len(rs) : /\ Len(rs[j]) >= 3
                                       /\ rs[j][1].val # ""
                                       /\ rs[j][3].val # "" } }

\* the index that ignores a failed read and uses the rows all the same
ExistingIndexIgnoringFailure(outcome, sh) == ExistingTrades(sh)

\* check_duplicates: when get_sheet_data returns {} (HttpError) the loop over
\* the rows is skipped and existing_trades stays empty
ExistingIndex(outcome, sh) ==
    IF outcome = "read failed" THEN {} ELSE ExistingTrades(sh)

\* flags only the first duplicate of the batch
DuplicateIndicesFirstOnly(trades, existing_trades) ==
    LET d == { i \in 1..Len(trades) :
                 <<trades[i].stock_name, trades[i].date>> \in existing_trades }
    IN  IF d = {} THEN {} ELSE {Min(d)}

\* check_duplicates: duplicate_indices
DuplicateIndices(trades, existing_trades) ==
    { i \in 1..Len(trades) :
        <<trades[i].stock_name, trades[i].date>> \in existing_trades }

\* check_duplicates(sheet_name, trades): the try block builds the index and
\* the duplicate indices; except Exception returns set()
CheckDuplicates(trades, outcome, sh) ==
    TryExcept(IF outcome = "read raises" THEN Raised
              ELSE Returned(DuplicateIndices(trades, ExistingIndex(outcome, sh))),
              {})

\* [t for i, t in enumerate(trades) if i not in duplicate_indices]
RECURSIVE NonDuplicateTrades(_, _, _)
NonDuplicateTrades(trades, duplicate_indices, i) ==
    IF i > Len(trades) THEN <<>>
    ELSE (IF i \in duplicate_indices THEN <<>> ELSE <<trades[i]>>)
         \o NonDuplicateTrades(trades, duplicate_indices, i + 1)

\* batch_update_cells: the block of rows_data lands at (start_row, start_col);
\* an empty string clears the cell
BatchUpdateCells(sh, start_row, start_col, rows_data) ==
    [ r \in 1..RowCount |->
        [ c \in 1..ColumnCount |->
            IF /\ r >= start_row /\ r < start_row + Len(rows_data)
               /\ c >= start_col /\ c < start_col + Len(rows_data[1])
            THEN rows_data[r - start_row + 1][c - start_col + 1]
            ELSE sh[r][c] ] ]

\* a range reaching past the grid is refused by the service (HttpError)
WithinGrid(start_row, n, end_col) ==
    start_row + n - 1 <= RowCount /\ end_col <= ColumnCount

BlankSheet == [r \in 1..RowCount |-> [c \in 1..ColumnCount |-> ""]]
\* a sheet whose row 1 carries headers in columns c0..c1
HeaderSheet(c0, c1) ==
    [BlankSheet EXCEPT ![1] = [c \in 1..ColumnCount |->
                                  IF c >= c0 /\ c <= c1 THEN "header" ELSE ""]]
\* the legacy journal with eight headers from column A or from column B, or
\* with a ninth column added; the sheet SheetWriter.create_sheet makes
InitialSheets(class) ==
    IF class = "manager"
    THEN { HeaderSheet(1, 8), HeaderSheet(2, 9), HeaderSheet(1, 9) }
    ELSE { HeaderSheet(1, DomesticColumns) }

Init ==
    /\ impl \in {"manager", "writer"}
    /\ sheet \in InitialSheets(impl)
    /\ runs = 0 /\ edits = 0
    /\ last = IdleRun /\ prev = IdleRun
    /\ rows = <<>> /\ extent = Unscanned
    /\ trade = <<>> /\ cells = <<>> /\ keys = <<>> /\ norm = <<>>
    /\ fetch = <<>> /\ group = <<>> /\ retry = <<>> /\ batch = <<>> /\ book = <<>>
    /\ streak = <<>>
    /\ flow = <<>>
    /\ dry = <<>>
    /\ reader = <<>>
    /\ reach = <<>>
    /\ pct = <<>>
    /\ numfmt = <<>>
    /\ paint = <<>>

\* before a run a human types into a cell, or clears one
HumanEdit(r, c, v) ==
    /\ edits < MaxEdits
    /\ runs < MaxRuns
    /\ sheet[r][c] # v
    /\ sheet' = [sheet EXCEPT ![r][c] = v]
    /\ edits' = edits + 1
    /\ UNCHANGED <<streak, flow, dry, reader, reach, pct, numfmt, paint, impl, runs, last, prev, rows, extent, trade, cells, keys, norm, fetch, group, retry, batch, book>>

\* process_trading_log for one category and its sheet: sort, scan, duplicate
\* check, then batch_insert_trades (which scans again for the columns);
\* outcome says whether the read of check_duplicates came back empty
\* (HttpError) or raised, or the write of batch_update_cells failed
ProcessTradingLog(input, outcome) ==
    /\ impl = "manager"
    /\ runs < MaxRuns
    /\ \E trades \in {SortByDate(input, 1)},
          scan \in {FindLastRowWithColumnInfo(sheet)},
          existing \in {IF outcome = "read raises" THEN {}
                        ELSE ExistingIndex(outcome, sheet)},
          checked \in {CheckDuplicates(SortByDate(input, 1), outcome, sheet)} :
       \E duplicates \in {checked.ret},
          cols \in {FindLastRowWithColumnInfo(sheet)} :
       \E accepted \in {NonDuplicateTrades(trades, duplicates, 1)} :
       \E rows_data \in {[i \in 1..Len(accepted) |->
                            FitRow(ToSheetRow(accepted[i]), cols[3] - cols[2] + 1)]},
          ok \in {/\ accepted # <<>>
                  /\ outcome # "write failed"
                  /\ WithinGrid(scan[1], Len(accepted), cols[3])} :
       \E after \in {IF ok THEN BatchUpdateCells(sheet, scan[1], cols[2], rows_data)
                     ELSE sheet} :
           /\ sheet' = after
           /\ last' = [ kind |-> "run", trades |-> trades, before |-> sheet,
                        after |-> after, start_row |-> scan[1],
                        start_col |-> cols[2], end_col |-> cols[3],
                        existing |-> existing, duplicates |-> duplicates,
                        accepted |-> accepted, ok |-> ok,
                        outcome |-> outcome, raised |-> checked.raised,
                        rows_data |-> rows_data,
                        end_row |-> scan[1] + Len(accepted) - 1 ]
    /\ prev' = last
    /\ runs' = runs + 1
    /\ UNCHANGED <<streak, flow, dry, reader, reach, pct, numfmt, paint, impl, edits, rows, extent, trade, cells, keys, norm, fetch, group, retry, batch, book>>

\* SheetWriter.insert_trades(sheet_name, trades) for the domestic layout
InsertTrades(trades, outcome) ==
    /\ impl = "writer"
    /\ runs < MaxRuns
    /\ \E start_row \in {FindLastRow(sheet)},
          rows_data \in {[i \in 1..Len(trades) |->
                            FitRow(DomesticRowText(trades[i]), DomesticColumns)]} :
       \E ok \in {/\ trades # <<>>
                  /\ outcome # "write failed"
                  /\ WithinGrid(start_row, Len(trades), DomesticColumns)} :
       \E after \in {IF ok THEN BatchUpdateCells(sheet, start_row, 1, rows_data)
                     ELSE sheet} :
           /\ sheet' = after
           /\ last' = [ kind |-> "run", trades |-> trades, before |-> sheet,
                        after |-> after, start_row |-> start_row,
                        start_col |-> 1, end_col |-> DomesticColumns,
                        existing |-> {}, duplicates |-> {},
                        accepted |-> trades, ok |-> ok,
                        outcome |-> outcome, raised |-> FALSE,
                        rows_data |-> rows_data,
                        end_row |-> start_row + Len(trades) - 1 ]
    /\ prev' = last
    /\ runs' = runs + 1
    /\ UNCHANGED <<streak, flow, dry, reader, reach, pct, numfmt, paint, impl, edits, rows, extent, trade, cells, keys, norm, fetch, group, retry, batch, book>>

Next ==
    \/ \E r \in 1..RowCount, c \in 1..MaxEditCol, v \in {"", "memo"} : HumanEdit(r, c, v)
    \/ \E input \in TradeLists,
          outcome \in {"ok", "read failed", "read raises", "write failed"} :
          ProcessTradingLog(input, outcome)
    \/ \E trades \in TradeLists, outcome \in {"ok", "write failed"} :
          InsertTrades(trades, outcome)

Spec == Init /\ [][Next]_vars

-----------------------------------------------------------------------------
(* SpecGroup: _group_consecutive_rows over bounded sets of row indices *)

\* a list left in the order it was given
Unsorted(seq) == seq

\* sorted(rows), by insertion
RECURSIVE InsertSorted(_, _)
InsertSorted(x, seq) ==
    IF seq = <<>> THEN <<x>>
    ELSE IF x <= Head(seq) THEN <<x>> \o seq
    ELSE <<Head(seq)>> \o InsertSorted(x, Tail(seq))

RECURSIVE Sorted(_)
Sorted(seq) == IF seq = <<>> THEN <<>> ELSE InsertSorted(Head(seq), Sorted(Tail(seq)))

\* the loop "for r in rows[1:]" with start, end and the ranges so far,
\* followed by the final append
RECURSIVE GroupLoop(_, _, _, _, _)
GroupLoop(rs, i, start, end, ranges) ==
    IF i > Len(rs) THEN Append(ranges, <<start, end>>)
    ELSE IF rs[i] = end + 1
         THEN GroupLoop(rs, i + 1, start, rs[i], ranges)
         ELSE GroupLoop(rs, i + 1, rs[i], rs[i], Append(ranges, <<start, end>>))

\* SummaryGenerator._group_consecutive_rows(rows): no sort of its own
GroupConsecutiveAsGiven(rs) ==
    IF rs = <<>> THEN <<>> ELSE GroupLoop(rs, 2, rs[1], rs[1], <<>>)

\* sheet_writer._group_consecutive_rows(rows)
GroupConsecutiveRows(rs) == GroupConsecutiveAsGiven(Sorted(rs))

\* a set of indices as a list: ascending, descending, or ascending with the
\* first element moved to the end
RECURSIVE Ascending(_)
Ascending(S) == IF S = {} THEN <<>> ELSE <<Min(S)>> \o Ascending(S \ {Min(S)})
RECURSIVE Descending(_)
Descending(S) == IF S = {} THEN <<>> ELSE <<Max(S)>> \o Descending(S \ {Max(S)})
ListOf(S, order) ==
    IF order = "ascending" THEN Ascending(S)
    ELSE IF order = "descending" THEN Descending(S)
    ELSE IF S = {} THEN <<>> ELSE Tail(Ascending(S)) \o <<Min(S)>>

InitGroup ==
    /\ group \in { [which |-> w, rows |-> ListOf(S, o), done |-> FALSE, out |-> <<>>] :
                     w \in {"writer", "summary"}, S \in SUBSET (1..MaxIndex),
                     o \in {"ascending", "descending", "rotated"} }
    /\ rows = <<>> /\ extent = Unscanned
    /\ impl = "none" /\ sheet = <<>> /\ runs = 0 /\ edits = 0
    /\ last = IdleRun /\ prev = IdleRun
    /\ trade = <<>> /\ cells = <<>> /\ keys = <<>> /\ norm = <<>>
    /\ fetch = <<>> /\ retry = <<>> /\ batch = <<>> /\ book = <<>>
    /\ streak = <<>>
    /\ flow = <<>>
    /\ dry = <<>>
    /\ reader = <<>>
    /\ reach = <<>>
    /\ pct = <<>>
    /\ numfmt = <<>>
    /\ paint = <<>>

\* _apply_number_formats calls the module function on the rows as collected;
\* _apply_metrics_formats sorts the rows and calls the static method
Group ==
    /\ ~group.done
    /\ group' = [group EXCEPT
                   !.done = TRUE,
                   !.out = IF group.which = "writer"
                           THEN GroupConsecutiveRows(group.rows)
                           ELSE GroupConsecutiveAsGiven(Sorted(group.rows))]
    /\ UNCHANGED <<streak, flow, dry, reader, reach, pct, numfmt, paint, impl, sheet, runs, edits, last, prev, rows, extent, trade, cells,
                   keys, norm, fetch, retry, batch, book>>

NextGroup == Group

SpecGroup == InitGroup /\ [][NextGroup]_vars

-----------------------------------------------------------------------------
(* SpecRetry: _retry_with_backoff around GoogleSheetsClient.batch_update_cells. *)
(* retry.log lists what the call has done so far: attempts with how each    *)
(* ended, and sleeps with their delay.                                      *)

RECURSIVE Pow2(_)
Pow2(n) == IF n = 0 THEN 1 ELSE 2 * Pow2(n - 1)

\* a delay that grows by initial_delay per attempt instead of doubling
BackoffDelayLinear(initial_delay, attempt) == initial_delay * (attempt + 1)

\* delay = initial_delay * (2 ** attempt)
BackoffDelay(initial_delay, attempt) == initial_delay * Pow2(attempt)

\* the test that lets one more attempt through
IsLastAttemptLate(attempt, max_retries) == attempt = max_retries

\* if attempt == max_retries - 1: raise
IsLastAttempt(attempt, max_retries) == attempt = max_retries - 1

\* what the service does to one values().batchUpdate request: it accepts
\* it, answers with an HTTP error (quota, 5xx), or the connection breaks
ServiceOutcomes == {"accepted", "http error", "connection error"}

\* batch_update_cells: True on success, False when HttpError is caught,
\* any other exception leaves the method
BatchUpdateCellsResult(service) ==
    IF service = "accepted" THEN Returned(TRUE)
    ELSE IF service = "http error" THEN Returned(FALSE)
    ELSE Raised

InitialDelays == {1, 3}

IdleRetry == [phase |-> "idle", invocations |-> 0]

InitRetry ==
    /\ retry = IdleRetry
    /\ rows = <<>> /\ extent = Unscanned
    /\ impl = "none" /\ sheet = <<>> /\ runs = 0 /\ edits = 0
    /\ last = IdleRun /\ prev = IdleRun
    /\ trade = <<>> /\ cells = <<>> /\ keys = <<>> /\ norm = <<>>
    /\ fetch = <<>> /\ group = <<>> /\ batch = <<>> /\ book = <<>>
    /\ streak = <<>>
    /\ flow = <<>>
    /\ dry = <<>>
    /\ reader = <<>>
    /\ reach = <<>>
    /\ pct = <<>>
    /\ numfmt = <<>>
    /\ paint = <<>>

RetryFrame ==
    UNCHANGED <<streak, flow, dry, reader, reach, pct, numfmt, paint, impl, sheet, runs, edits, last, prev, rows, extent, trade, cells,
                keys, norm, fetch, group, batch, book>>

\* entering _retry_with_backoff(func, max_retries, initial_delay): the loop
\* variable starts at 0
StartRetry(max_retries, initial_delay) ==
    /\ retry.phase \in {"idle", "returned", "raised"}
    /\ retry.invocations < MaxInvocations
    /\ retry' = [ phase |-> "call", invocations |-> retry.invocations + 1,
                  max_retries |-> max_retries, initial_delay |-> initial_delay,
                  attempt |-> 0, log |-> <<>>, result |-> FALSE, error |-> 0 ]
    /\ RetryFrame

\* one pass through the try block: func returns, or raises and the except
\* clause either re-raises or computes the delay
Attempt(service) ==
    /\ retry.phase = "call"
    /\ \E res \in {BatchUpdateCellsResult(service)},
          entry \in {[kind |-> "attempt", n |-> retry.attempt + 1, service |-> service]} :
          IF ~res.raised
          THEN retry' = [retry EXCEPT !.phase = "returned", !.result = res.ret,
                                      !.log = Append(@, entry)]
          ELSE IF IsLastAttempt(retry.attempt, retry.max_retries)
               THEN retry' = [retry EXCEPT !.phase = "raised",
                                           !.error = retry.attempt + 1,
                                           !.log = Append(@, entry)]
               ELSE retry' = [retry EXCEPT !.phase = "sleep", !.log = Append(@, entry)]
    /\ RetryFrame

\* await asyncio.sleep(delay), then the next iteration of the loop
Sleep ==
    /\ retry.phase = "sleep"
    /\ retry' = [retry EXCEPT
                   !.phase = "call",
                   !.log = Append(@, [kind |-> "sleep", n |-> retry.attempt + 1,
                                      delay |-> BackoffDelay(retry.initial_delay,
                                                             retry.attempt)]),
                   !.attempt = @ + 1]
    /\ RetryFrame

NextRetry ==
    \/ \E max_retries \in 1..MaxRetries, initial_delay \in InitialDelays :
          StartRetry(max_retries, initial_delay)
    \/ \E service \in ServiceOutcomes : Attempt(service)
    \/ Sleep

SpecRetry == InitRetry /\ [][NextRetry]_vars

-----------------------------------------------------------------------------
(* SpecBatch: the loop of batch_insert_trades that executes the prepared   *)
(* writes, one sheet after the other in the order of batch_updates.        *)

\* how the work on one sheet ends: the write is accepted, batch_update_cells
\* returns False (HttpError), _retry_with_backoff raises after its last
\* attempt, or the write is accepted and a later statement of the try block
\* (the log of data[0][3], apply_date_colors) raises
SheetOutcomes == {"accepted", "http error", "raises", "raises after write"}

\* the try block for one sheet: success is stored in results, then the
\* colours are applied when success is true
SheetWriteBody(outcome) ==
    IF outcome \in {"raises", "raises after write"} THEN Raised
    ELSE Returned(outcome = "accepted")

\* the loop body without its except clause
SheetResultUncaught(outcome) == SheetWriteBody(outcome)

\* the loop body: except Exception sets results[sheet_name] = False
SheetResult(outcome) == TryExcept(SheetWriteBody(outcome), FALSE)

IdleBatch == [phase |-> "idle"]

InitBatch ==
    /\ batch = IdleBatch
    /\ rows = <<>> /\ extent = Unscanned
    /\ impl = "none" /\ sheet = <<>> /\ runs = 0 /\ edits = 0
    /\ last = IdleRun /\ prev = IdleRun
    /\ trade = <<>> /\ cells = <<>> /\ keys = <<>> /\ norm = <<>>
    /\ fetch = <<>> /\ group = <<>> /\ retry = <<>> /\ book = <<>>
    /\ streak = <<>>
    /\ flow = <<>>
    /\ dry = <<>>
    /\ reader = <<>>
    /\ reach = <<>>
    /\ pct = <<>>
    /\ numfmt = <<>>
    /\ paint = <<>>

BatchFrame ==
    UNCHANGED <<streak, flow, dry, reader, reach, pct, numfmt, paint, impl, sheet, runs, edits, last, prev, rows, extent, trade, cells,
                keys, norm, fetch, group, retry, book>>

\* batch_insert_trades(sheet_trades) up to the execution loop: sheets 1..n
\* each have a range prepared in batch_updates
StartBatch(n) ==
    /\ batch.phase = "idle"
    /\ batch' = [ phase |-> "writing", prepared |-> [i \in 1..n |-> i], pos |-> 1,
                  outcomes |-> <<>>, results |-> <<>>, zeroed |-> {} ]
    /\ BatchFrame

\* one iteration of "for sheet_name, ranges in batch_updates.items()"
WriteSheet(outcome) ==
    /\ batch.phase = "writing"
    /\ batch.pos <= Len(batch.prepared)
    /\ \E res \in {SheetResult(outcome)} :
          IF res.raised
          THEN batch' = [batch EXCEPT !.phase = "raised",
                                      !.outcomes = Append(@, outcome)]
          ELSE batch' = [batch EXCEPT
                           !.outcomes = Append(@, outcome),
                           !.results = (batch.prepared[batch.pos] :> res.ret) @@ @,
                           !.pos = @ + 1]
    /\ BatchFrame

\* return results; process_trading_log then sets the count of every sheet
\* whose result is False to 0
ReturnResults ==
    /\ batch.phase = "writing"
    /\ batch.pos > Len(batch.prepared)
    /\ batch' = [batch EXCEPT
                   !.phase = "returned",
                   !.zeroed = {sh \in DOMAIN batch.results : ~batch.results[sh]}]
    /\ BatchFrame

NextBatch ==
    \/ \E n \in 1..MaxSheets : StartBatch(n)
    \/ \E outcome \in SheetOutcomes : WriteSheet(outcome)
    \/ ReturnResults

SpecBatch == InitBatch /\ [][NextBatch]_vars

-----------------------------------------------------------------------------
(* SpecBook: the sheets of the spreadsheet, SheetWriter._sheet_cache and    *)
(* GoogleSheetsClient._sheet_id_cache during one run.                       *)

\* summary_generator.DASHBOARD_SHEET
DASHBOARD_SHEET == "dashboard"

SheetNames == {"domestic", "foreign", DASHBOARD_SHEET}

\* self._sheet_cache = None
NoSheetCache == [filled |-> FALSE, names |-> {}, at |-> 0]

\* list_sheets: the titles, or [] when the request gets an HttpError
ListSheets(outcome, server) == IF outcome = "ok" THEN server ELSE {}

\* _get_sheets: list_sheets fills the cache when it is None. at is the number
\* of sheets created in the run when the list was fetched.
GetSheets(outcome, b) ==
    IF b.sheet_cache.filled THEN b.sheet_cache
    ELSE [filled |-> TRUE, names |-> ListSheets(outcome, b.server), at |-> b.creations]

\* _get_sheet_id: when the name is not cached, every title of the metadata is
\* stored ({} on HttpError: nothing stored). The cache is a set of
\* <<title, number of sheets created when the entry was fetched>>.
GetSheetId(sheet_name, outcome, ids, server, creations) ==
    IF sheet_name \in {e[1] : e \in ids} \/ outcome # "ok" THEN ids
    ELSE {<<n, creations>> : n \in server} \cup {e \in ids : e[1] \notin server}

\* create_sheet: addSheet is refused (HttpError) for a title that exists or
\* when the request fails; only an accepted request clears the id cache
CreateAccepted(title, outcome, server) == outcome = "ok" /\ title \notin server

\* the results of the requests one call makes
BookPlans ==
    [ list : {"ok", "http error"}, create : {"ok", "http error"},
      header : {"ok", "http error", "raises"}, metadata : {"ok", "http error"} ]

InitBook ==
    /\ \E server \in SUBSET SheetNames :
          book = [ server |-> server, headers |-> server \ {DASHBOARD_SHEET},
                   sheet_cache |-> NoSheetCache, sheet_id_cache |-> {},
                   creations |-> 0, call |-> [op |-> "none"] ]
    /\ rows = <<>> /\ extent = Unscanned
    /\ impl = "none" /\ sheet = <<>> /\ runs = 0 /\ edits = 0
    /\ last = IdleRun /\ prev = IdleRun
    /\ trade = <<>> /\ cells = <<>> /\ keys = <<>> /\ norm = <<>>
    /\ fetch = <<>> /\ group = <<>> /\ retry = <<>> /\ batch = <<>>
    /\ streak = <<>>
    /\ flow = <<>>
    /\ dry = <<>>
    /\ reader = <<>>
    /\ reach = <<>>
    /\ pct = <<>>
    /\ numfmt = <<>>
    /\ paint = <<>>

BookFrame ==
    UNCHANGED <<streak, flow, dry, reader, reach, pct, numfmt, paint, impl, sheet, runs, edits, last, prev, rows, extent, trade, cells,
                keys, norm, fetch, group, retry, batch>>

\* what a call did: the sheet list it looked the name up in and when that
\* list was fetched, whether the sheet existed before the call, whether the
\* call created it and wrote its header, and how the call ended
CallRecord(op, name, b, seen, created, header_written, raised, ret) ==
    [ op |-> op, sheet_name |-> name, seen |-> seen.names, seen_at |-> seen.at,
      creations_before |-> b.creations, existed |-> name \in b.server,
      created |-> created, header_written |-> header_written,
      raised |-> raised, ret |-> ret ]

\* SheetWriter.ensure_sheet_exists(sheet_name)
EnsureSheetExists(sheet_name, plan) ==
    \E sheets \in {GetSheets(plan.list, book)} :
       IF sheet_name \in sheets.names
       THEN \* apply_sheet_formatting, clear_background_colors; return False
            /\ book' = [book EXCEPT
                  !.sheet_cache = sheets,
                  !.sheet_id_cache = GetSheetId(sheet_name, plan.metadata, @,
                                                book.server, book.creations),
                  !.call = CallRecord("ensure_sheet_exists", sheet_name, book,
                                      sheets, FALSE, FALSE, FALSE, FALSE)]
            /\ BookFrame
       ELSE \E created \in {CreateAccepted(sheet_name, plan.create, book.server)} :
            \E server \in {IF created THEN book.server \cup {sheet_name} ELSE book.server} :
            \E creations \in {IF created THEN book.creations + 1 ELSE book.creations} :
            \E ids \in {IF created THEN {} ELSE book.sheet_id_cache} :
            \E header_written \in {plan.header = "ok" /\ sheet_name \in server} :
               /\ book' =
                    IF plan.header = "raises"
                    THEN \* update_cells raises: nothing after it runs
                         [book EXCEPT
                            !.server = server, !.creations = creations,
                            !.sheet_cache = sheets, !.sheet_id_cache = ids,
                            !.call = CallRecord("ensure_sheet_exists", sheet_name, book,
                                                sheets, created, FALSE, TRUE, FALSE)]
                    ELSE [book EXCEPT
                            !.server = server, !.creations = creations,
                            !.headers = IF header_written THEN @ \cup {sheet_name} ELSE @,
                            !.sheet_cache = NoSheetCache,
                            !.sheet_id_cache = GetSheetId(sheet_name, plan.metadata, ids,
                                                          server, creations),
                            !.call = CallRecord("ensure_sheet_exists", sheet_name, book,
                                                sheets, created, header_written, FALSE, TRUE)]
               /\ BookFrame

\* SummaryGenerator._ensure_dashboard_sheet()
EnsureDashboardSheet(plan) ==
    \E sheets \in {[filled |-> TRUE, names |-> ListSheets(plan.list, book.server),
                    at |-> book.creations]} :
       IF DASHBOARD_SHEET \notin sheets.names
       THEN \E created \in {CreateAccepted(DASHBOARD_SHEET, plan.create, book.server)} :
               /\ book' = [book EXCEPT
                     !.server = IF created THEN @ \cup {DASHBOARD_SHEET} ELSE @,
                     !.creations = IF created THEN @ + 1 ELSE @,
                     !.sheet_id_cache = IF created THEN {} ELSE @,
                     !.call = CallRecord("_ensure_dashboard_sheet", DASHBOARD_SHEET, book,
                                         sheets, created, FALSE, FALSE, FALSE)]
               /\ BookFrame
       ELSE \* clear_sheet, clear_background_colors
            /\ book' = [book EXCEPT
                  !.sheet_id_cache = GetSheetId(DASHBOARD_SHEET, plan.metadata, @,
                                                book.server, book.creations),
                  !.call = CallRecord("_ensure_dashboard_sheet", DASHBOARD_SHEET, book,
                                      sheets, FALSE, FALSE, FALSE, FALSE)]
            /\ BookFrame

NextBook ==
    \/ \E sheet_name \in SheetNames, plan \in BookPlans : EnsureSheetExists(sheet_name, plan)
    \/ \E plan \in BookPlans : EnsureDashboardSheet(plan)

SpecBook == InitBook /\ [][NextBook]_vars

-----------------------------------------------------------------------------
(* SpecColour: apply_date_colors, called by batch_insert_trades for a block *)
(* of trades whose write was accepted.                                      *)

\* len(self.color_palette)
PaletteSize == 8

\* longest block of trades drawn freely; one longer block has more dates
\* than the palette has colours
MaxBlock == 3
ManyDates == [i \in 1..(PaletteSize + 1) |-> i]
ColourBlocks == UNION {[1..n -> 1..MaxBlock] : n \in 0..MaxBlock} \cup {ManyDates}

\* date_groups: the dates of the block in order of first appearance
RECURSIVE DateOrder(_, _)
DateOrder(dates, i) ==
    IF i > Len(dates) THEN <<>>
    ELSE IF \E j \in 1..(i - 1) : dates[j] = dates[i] THEN DateOrder(dates, i + 1)
    ELSE <<dates[i]>> \o DateOrder(dates, i + 1)

\* the 0-based offsets of one date, ascending
OffsetsOf(dates, d) == Ascending({i - 1 : i \in {j \in 1..Len(dates) : dates[j] = d}})

\* the ranges appended for one date group: 'end_row': start_row + end_idx + 1
RangesOfGroup(runs_, start_row, start_col, end_col, color) ==
    [k \in 1..Len(runs_) |->
        [ start_row |-> start_row + runs_[k][1], end_row |-> start_row + runs_[k][2] + 1,
          start_col |-> start_col, end_col |-> end_col, color |-> color ]]

\* color_ranges of apply_date_colors; colours are palette indices
RECURSIVE ColorRanges(_, _, _, _, _, _)
ColorRanges(dates, order, date_idx, start_row, start_col, end_col) ==
    IF date_idx > Len(order) THEN <<>>
    ELSE RangesOfGroup(GroupConsecutiveAsGiven(OffsetsOf(dates, order[date_idx])),
                       start_row, start_col, end_col, (date_idx - 1) % PaletteSize)
         \o ColorRanges(dates, order, date_idx + 1, start_row, start_col, end_col)

\* the repeatCell ranges the body of batch_apply_colors builds (0-based,
\* end exclusive)
RepeatCells(color_ranges) ==
    [k \in 1..Len(color_ranges) |->
        [ startRowIndex |-> color_ranges[k].start_row - 1,
          endRowIndex |-> color_ranges[k].end_row,
          startColumnIndex |-> color_ranges[k].start_col - 1,
          endColumnIndex |-> color_ranges[k].end_col,
          backgroundColor |-> color_ranges[k].color ]]

\* self.client.batch_apply_colors(...) with await: the body runs and its
\* batchUpdate is issued
CallAwaited(requests) == [coroutine |-> "finished", issued |-> requests]

\* self.client.batch_apply_colors(...) as apply_date_colors writes it, a
\* plain call of an async def inside a def: a coroutine object is created
\* and dropped, its body never runs
CallNotAwaited(requests) == [coroutine |-> "never awaited", issued |-> <<>>]

InitColour ==
    /\ paint \in { [ dates |-> d, start_row |-> r, start_col |-> w[1], end_col |-> w[2],
                     phase |-> "written", color_ranges |-> <<>>,
                     coroutine |-> "none", issued |-> <<>> ] :
                   d \in ColourBlocks, r \in {2, 3}, w \in {<<2, 9>>, <<1, 8>>} }
    /\ rows = <<>> /\ extent = Unscanned
    /\ impl = "none" /\ sheet = <<>> /\ runs = 0 /\ edits = 0
    /\ last = IdleRun /\ prev = IdleRun
    /\ trade = <<>> /\ cells = <<>> /\ keys = <<>> /\ norm = <<>>
    /\ fetch = <<>> /\ group = <<>> /\ retry = <<>> /\ batch = <<>> /\ book = <<>>
    /\ streak = <<>>
    /\ flow = <<>>
    /\ dry = <<>>
    /\ reader = <<>>
    /\ reach = <<>>
    /\ pct = <<>>
    /\ numfmt = <<>>

\* apply_date_colors(sheet_name, trades, start_row, start_col, end_col)
ApplyDateColors ==
    /\ paint.phase = "written"
    /\ \E color_ranges \in {ColorRanges(paint.dates, DateOrder(paint.dates, 1), 1,
                                        paint.start_row, paint.start_col, paint.end_col)} :
       \E call \in {IF color_ranges = <<>> THEN [coroutine |-> "none", issued |-> <<>>]
                    ELSE CallNotAwaited(RepeatCells(color_ranges))} :
          paint' = [paint EXCEPT !.phase = "returned", !.color_ranges = color_ranges,
                                 !.coroutine = call.coroutine, !.issued = call.issued]
    /\ UNCHANGED <<streak, flow, dry, reader, reach, pct, numfmt, impl, sheet, runs, edits, last, prev, rows, extent, trade, cells,
                   keys, norm, fetch, group, retry, batch, book>>

NextColour == ApplyDateColors

SpecColour == InitColour /\ [][NextColour]_vars

-----------------------------------------------------------------------------
(* SpecFormat: SheetWriter._apply_number_formats for a block of inserted    *)
(* rows start_row .. end_row.                                               *)

\* the 'col' entries of DOMESTIC_FORMATS and FOREIGN_FORMATS_COMMON, and
\* FOREIGN_CURRENCY_COLS
DOMESTIC_FORMAT_COLS == {4, 5, 6, 7, 8, 9}
FOREIGN_FORMATS_COMMON_COLS == {6, 9, 10, 14, 15}
FOREIGN_CURRENCY_COLS == {7, 8, 11, 12, 13}

CURRENCY_PATTERN_DEFAULT == "#,##0.00"

\* CURRENCY_PATTERNS.get(currency, CURRENCY_PATTERN_DEFAULT); the currency
\* signs are written out as letters
CurrencyPattern(currency) ==
    IF currency \in {"USD", "EUR", "GBP", "CNY"} THEN currency \o " #,##0.00"
    ELSE IF currency = "JPY" THEN "JPY #,##0"
    ELSE CURRENCY_PATTERN_DEFAULT

\* the currencies of the records: two with a pattern of their own, one
\* without
Currencies == {"USD", "JPY", "HKD"}

\* currency_rows[c]: the rows start_row + i of one currency
RowsOfCurrency(currencies, c, start_row) ==
    Ascending({start_row + i - 1 : i \in {j \in 1..Len(currencies) : currencies[j] = c}})

\* one range from the first to the last row of the currency
FormatRunsSpan(rs) == <<<<rs[1], rs[Len(rs)]>>>>

\* _group_consecutive_rows(rows) as called by _apply_number_formats
FormatRuns(rs) == GroupConsecutiveRows(rs)

FormatCall(kind, cols, pattern, range) ==
    [ kind |-> kind, cols |-> cols, pattern |-> pattern,
      start_row |-> range[1], end_row |-> range[2] ]

\* the calls of apply_number_format_to_columns for one currency
CurrencyCalls(c, rs) ==
    [k \in 1..Len(FormatRuns(rs)) |->
        FormatCall("currency", FOREIGN_CURRENCY_COLS, CurrencyPattern(c), FormatRuns(rs)[k])]

\* for currency, rows in currency_rows.items(): in order of first appearance
RECURSIVE AllCurrencyCalls(_, _, _, _)
AllCurrencyCalls(currencies, order, k, start_row) ==
    IF k > Len(order) THEN <<>>
    ELSE CurrencyCalls(order[k], RowsOfCurrency(currencies, order[k], start_row))
         \o AllCurrencyCalls(currencies, order, k + 1, start_row)

InitFormat ==
    /\ numfmt \in { [ is_foreign |-> f, currencies |-> c, start_row |-> r,
                      end_row |-> r + Len(c) - 1, done |-> FALSE, calls |-> <<>> ] :
                    f \in BOOLEAN, r \in {2, 3},
                    c \in UNION {[1..n -> Currencies] : n \in 1..MaxBlock} }
    /\ rows = <<>> /\ extent = Unscanned
    /\ impl = "none" /\ sheet = <<>> /\ runs = 0 /\ edits = 0
    /\ last = IdleRun /\ prev = IdleRun
    /\ trade = <<>> /\ cells = <<>> /\ keys = <<>> /\ norm = <<>>
    /\ fetch = <<>> /\ group = <<>> /\ retry = <<>> /\ batch = <<>> /\ book = <<>>
    /\ streak = <<>>
    /\ flow = <<>>
    /\ dry = <<>>
    /\ reader = <<>>
    /\ reach = <<>>
    /\ pct = <<>>
    /\ paint = <<>>

\* _apply_number_formats(sheet_name, start_row, end_row, is_foreign, trades)
ApplyNumberFormats ==
    /\ ~numfmt.done
    /\ numfmt' = [numfmt EXCEPT
          !.done = TRUE,
          !.calls =
             IF ~numfmt.is_foreign
             THEN <<FormatCall("domestic", DOMESTIC_FORMAT_COLS, "per column",
                               <<numfmt.start_row, numfmt.end_row>>)>>
             ELSE <<FormatCall("common", FOREIGN_FORMATS_COMMON_COLS, "per column",
                               <<numfmt.start_row, numfmt.end_row>>)>>
                  \o AllCurrencyCalls(numfmt.currencies, DateOrder(numfmt.currencies, 1),
                                      1, numfmt.start_row)]
    /\ UNCHANGED <<streak, flow, dry, reader, reach, pct, paint, impl, sheet, runs, edits, last, prev, rows, extent, trade, cells,
                   keys, norm, fetch, group, retry, batch, book>>

NextFormat == ApplyNumberFormats

SpecFormat == InitFormat /\ [][NextFormat]_vars

-----------------------------------------------------------------------------
(* SpecRate: the profit rate of a record written by to_domestic_row or      *)
(* to_foreign_row and read back by _row_to_trade.                           *)

\* Python floats are binary floating point rounded to nearest, ties to even.
\* The model keeps the rounding and narrows the significand from 53 bits to
\* MantissaBits, as the integers of the checker are 32 bits wide.  A float
\* is [sign, m, e], its value sign * m * 2^e with 2^(MantissaBits-1) <= m <
\* 2^MantissaBits, or m = 0.
MantissaBits == 8

\* profit rates from -MaxHundredths/100 to MaxHundredths/100 percent
MaxHundredths == 60

FloatZero == [sign |-> 1, m |-> 0, e |-> 0]

\* the nearest float to n / d, for n > 0 and d > 0
RECURSIVE RoundRatio(_, _, _)
RoundRatio(n, d, e) ==
    IF n >= d * Pow2(MantissaBits) THEN RoundRatio(n, 2 * d, e + 1)
    ELSE IF n < d * Pow2(MantissaBits - 1) THEN RoundRatio(2 * n, d, e - 1)
    ELSE LET q == n \div d
             r == n % d
             m == IF 2 * r > d \/ (2 * r = d /\ q % 2 = 1) THEN q + 1 ELSE q
         IN  IF m = Pow2(MantissaBits) THEN <<Pow2(MantissaBits - 1), e + 1>> ELSE <<m, e>>

\* a float as numerator and denominator
Numerator(x) == IF x.e >= 0 THEN x.m * Pow2(x.e) ELSE x.m
Denominator(x) == IF x.e >= 0 THEN 1 ELSE Pow2(0 - x.e)

FloatOfRatio(sign, n, d) ==
    IF n = 0 THEN FloatZero
    ELSE [sign |-> sign, m |-> RoundRatio(n, d, 0)[1], e |-> RoundRatio(n, d, 0)[2]]

\* float("h.hh"): the parsers' float() of the percentage in the statement
ParseHundredths(h) == FloatOfRatio(IF h < 0 THEN -1 ELSE 1, IF h < 0 THEN 0 - h ELSE h, 100)

\* x / 100 and x * 100
FloatDiv100(x) == FloatOfRatio(x.sign, Numerator(x), Denominator(x) * 100)
FloatMul100(x) == FloatOfRatio(x.sign, Numerator(x) * 100, Denominator(x))

\* the last column of to_domestic_row / to_foreign_row:
\* self.profit_rate / 100 if self.profit_rate else 0
ProfitRateCell(profit_rate) == IF profit_rate.m # 0 THEN FloatDiv100(profit_rate) ELSE FloatZero

\* _row_to_trade: profit_rate = _get_num(values[8 or 14]) * 100.  The number
\* goes to the sheet and comes back as numberValue unchanged.
ReadProfitRate(cell) == FloatMul100(cell)

InitRate ==
    /\ pct \in { [ is_foreign |-> f, hundredths |-> h, profit_rate |-> ParseHundredths(h),
                    phase |-> "parsed", cell |-> FloatZero, read |-> FloatZero ] :
                  f \in BOOLEAN, h \in (0 - MaxHundredths)..MaxHundredths }
    /\ rows = <<>> /\ extent = Unscanned
    /\ impl = "none" /\ sheet = <<>> /\ runs = 0 /\ edits = 0
    /\ last = IdleRun /\ prev = IdleRun
    /\ trade = <<>> /\ cells = <<>> /\ keys = <<>> /\ norm = <<>>
    /\ fetch = <<>> /\ group = <<>> /\ retry = <<>> /\ batch = <<>> /\ book = <<>>
    /\ streak = <<>>
    /\ flow = <<>>
    /\ dry = <<>>
    /\ reader = <<>>
    /\ reach = <<>>
    /\ paint = <<>> /\ numfmt = <<>>

\* to_domestic_row() / to_foreign_row(): the row's last column
ToRow ==
    /\ pct.phase = "parsed"
    /\ pct' = [pct EXCEPT !.phase = "written", !.cell = ProfitRateCell(pct.profit_rate)]
    /\ UNCHANGED <<streak, flow, dry, reader, reach, impl, sheet, runs, edits, last, prev, rows, extent, trade, cells,
                   keys, norm, fetch, group, retry, batch, book, paint, numfmt>>

\* _row_to_trade(values, sheet_name, is_foreign, date_val)
RowToTrade ==
    /\ pct.phase = "written"
    /\ pct' = [pct EXCEPT !.phase = "read", !.read = ReadProfitRate(pct.cell)]
    /\ UNCHANGED <<streak, flow, dry, reader, reach, impl, sheet, runs, edits, last, prev, rows, extent, trade, cells,
                   keys, norm, fetch, group, retry, batch, book, paint, numfmt>>

NextRate == ToRow \/ RowToTrade

SpecRate == InitRate /\ [][NextRate]_vars

-----------------------------------------------------------------------------
(* SpecReach: the ranges the reads before an append ask for, on a sheet     *)
(* whose rows 2 .. data_row hold records and whose grid has row_count rows. *)

\* row_count = 10000 / "A2:C10000" / "A1:Z10000": the range end used when the
\* metadata gives no row count
DefaultRowCount == 10000

\* get_existing_keys: "A2:O10000"
ExistingKeysRangeEnd == 10000

\* declared row counts: below, at and above the fixed range ends
RowCounts == {1000, 9999, 10000, 10001, 20000}

\* the last data row: near the top, and around the fixed range ends
DataRows == {2, 999, 1000, 9999, 10000, 10001, 15000, 20000}

\* the rowCount the metadata lookup yields: the sheet's, or the default when
\* the metadata is {} or does not list the sheet
RowCountFromMetadata(metadata, row_count) ==
    IF metadata = "ok" THEN row_count ELSE DefaultRowCount

\* find_last_row: f"A1:A{row_count}"; find_last_row_with_column_info:
\* f"A1:Z{row_count}"
ExtentScanRange(class, metadata, row_count) ==
    [first |-> 1, last |-> RowCountFromMetadata(metadata, row_count)]

\* get_existing_keys: "A2:O10000"; check_duplicates: f"A2:C{row_count}"
KeyIndexRange(class, metadata, row_count) ==
    IF class = "writer" THEN [first |-> 2, last |-> ExistingKeysRangeEnd]
    ELSE [first |-> 2, last |-> RowCountFromMetadata(metadata, row_count)]

\* the rows of the grid a range returns
RowsReturned(range, row_count) == [first |-> range.first, last |-> Min({range.last, row_count})]

InitReach ==
    /\ reach \in { s \in [ class : {"writer", "manager"},
                            metadata : {"ok", "empty", "no sheet"},
                            row_count : RowCounts, data_row : DataRows,
                            phase : {"start"}, scanned : {<<>>}, indexed : {<<>>} ] :
                      s.data_row <= s.row_count }
    /\ rows = <<>> /\ extent = Unscanned
    /\ impl = "none" /\ sheet = <<>> /\ runs = 0 /\ edits = 0
    /\ last = IdleRun /\ prev = IdleRun
    /\ trade = <<>> /\ cells = <<>> /\ keys = <<>> /\ norm = <<>>
    /\ fetch = <<>> /\ group = <<>> /\ retry = <<>> /\ batch = <<>> /\ book = <<>>
    /\ streak = <<>>
    /\ flow = <<>>
    /\ dry = <<>>
    /\ reader = <<>>
    /\ paint = <<>> /\ numfmt = <<>> /\ pct = <<>>

\* the fetch of find_last_row / find_last_row_with_column_info
FetchForExtent ==
    /\ reach.phase = "start"
    /\ reach' = [reach EXCEPT
          !.phase = "scanned",
          !.scanned = RowsReturned(ExtentScanRange(reach.class, reach.metadata,
                                                   reach.row_count), reach.row_count)]
    /\ UNCHANGED <<streak, flow, dry, reader, impl, sheet, runs, edits, last, prev, rows, extent, trade, cells,
                   keys, norm, fetch, group, retry, batch, book, paint, numfmt, pct>>

\* the fetch of get_existing_keys / check_duplicates
FetchForKeys ==
    /\ reach.phase = "scanned"
    /\ reach' = [reach EXCEPT
          !.phase = "indexed",
          !.indexed = RowsReturned(KeyIndexRange(reach.class, reach.metadata,
                                                 reach.row_count), reach.row_count)]
    /\ UNCHANGED <<streak, flow, dry, reader, impl, sheet, runs, edits, last, prev, rows, extent, trade, cells,
                   keys, norm, fetch, group, retry, batch, book, paint, numfmt, pct>>

NextReach == FetchForExtent \/ FetchForKeys

SpecReach == InitReach /\ [][NextReach]_vars

-----------------------------------------------------------------------------
(* SpecRead: SheetWriter.read_all_trades over the sheets of the spreadsheet *)

\* sheets in the spreadsheet
MaxReadSheets == 2

\* len(FOREIGN_HEADERS)
ForeignColumns == 15

\* sheet titles: one name in its composed and its decomposed Unicode form,
\* and another name
ReadNames == {"cafe (NFC)", "cafe (NFD)", "dashboard"}

\* unicodedata.normalize("NFC", sheet_name)
NormalizeNFC(name) == IF name = "cafe (NFD)" THEN "cafe (NFC)" ELSE name

\* the data rows every sheet of the model holds from row 2: a 9-cell record,
\* a 15-cell record, a row of 3 cells, a 15-cell row whose first cell has no
\* formattedValue, and a 9-cell row without one
DataRowShapes ==
    << [cells |-> 9, date |-> "2026-02-13"], [cells |-> 15, date |-> "2026-01-02"],
       [cells |-> 3, date |-> "2026-02-13"], [cells |-> 15, date |-> ""],
       [cells |-> 9, date |-> ""] >>

\* a header row: DOMESTIC_HEADERS, FOREIGN_HEADERS, another list, or no row
HeaderRows == {"domestic", "foreign", "other", "none"}

\* how a fetch ends: data, {} after an HttpError, or another exception
FetchOutcomes == {"ok", "http error", "raises"}

ReadSheets ==
    [ name : ReadNames, header : HeaderRows, header_fetch : FetchOutcomes,
      data_fetch : FetchOutcomes ]

\* _extract_header_row(get_sheet_data(sheet_name, "A1:O1")): [] for {}
ExtractHeaderRow(sh) == IF sh.header_fetch = "ok" THEN sh.header ELSE "none"

\* _row_to_trade: the record of row k of the sheet, read with a layout
RowToTradeRecord(account, is_foreign, k) ==
    [account |-> account, is_foreign |-> is_foreign, row |-> k + 1,
     date |-> DataRowShapes[k].date]

\* the loop of _read_trades_from_sheet over rowData
RECURSIVE ReadRows(_, _, _)
ReadRows(account, is_foreign, k) ==
    IF k > Len(DataRowShapes) THEN <<>>
    ELSE IF DataRowShapes[k].cells < (IF is_foreign THEN ForeignColumns ELSE DomesticColumns)
            \/ DataRowShapes[k].date = ""
         THEN ReadRows(account, is_foreign, k + 1)
         ELSE <<RowToTradeRecord(account, is_foreign, k)>> \o ReadRows(account, is_foreign, k + 1)

\* the try block of _read_trades_from_sheet
ReadTradesBody(sh, is_foreign, account) ==
    IF sh.data_fetch = "raises" THEN Raised
    ELSE IF sh.data_fetch = "http error" THEN Returned(<<>>)
    ELSE Returned(ReadRows(account, is_foreign, 1))

\* _read_trades_from_sheet without its except clause
ReadTradesFromSheetUncaught(sh, is_foreign, account) ==
    ReadTradesBody(sh, is_foreign, account)

\* _read_trades_from_sheet(sheet_name, is_foreign, account_name)
ReadTradesFromSheet(sh, is_foreign, account) ==
    TryExcept(ReadTradesBody(sh, is_foreign, account), <<>>)

InitRead ==
    /\ reader \in { [ list |-> l, sheets |-> s, phase |-> "start", pos |-> 1,
                      seen_names |-> {}, all_trades |-> <<>> ] :
                    l \in FetchOutcomes,
                    s \in { t \in UNION {[1..n -> ReadSheets] : n \in 1..MaxReadSheets} :
                              \A i, j \in DOMAIN t : i # j => t[i].name # t[j].name } }
    /\ rows = <<>> /\ extent = Unscanned
    /\ impl = "none" /\ sheet = <<>> /\ runs = 0 /\ edits = 0
    /\ last = IdleRun /\ prev = IdleRun
    /\ trade = <<>> /\ cells = <<>> /\ keys = <<>> /\ norm = <<>>
    /\ fetch = <<>> /\ group = <<>> /\ retry = <<>> /\ batch = <<>> /\ book = <<>>
    /\ streak = <<>>
    /\ flow = <<>>
    /\ dry = <<>>
    /\ paint = <<>> /\ numfmt = <<>> /\ pct = <<>> /\ reach = <<>>

ReadFrame ==
    UNCHANGED <<streak, flow, dry, impl, sheet, runs, edits, last, prev, rows, extent, trade, cells,
                keys, norm, fetch, group, retry, batch, book, paint, numfmt, pct, reach>>

\* sheets = await self.client.list_sheets()
ListForRead ==
    /\ reader.phase = "start"
    /\ reader' = IF reader.list = "raises" THEN [reader EXCEPT !.phase = "raised"]
                 ELSE IF reader.list = "http error"
                      THEN [reader EXCEPT !.phase = "reading", !.sheets = <<>>]
                      ELSE [reader EXCEPT !.phase = "reading"]
    /\ ReadFrame

\* one iteration of "for sheet_name in sheets"
ReadOneSheet ==
    /\ reader.phase = "reading"
    /\ reader.pos <= Len(reader.sheets)
    /\ \E sh \in {reader.sheets[reader.pos]} :
       \E normalized_name \in {NormalizeNFC(sh.name)} :
          IF normalized_name \in reader.seen_names
          THEN reader' = [reader EXCEPT !.pos = @ + 1]
          ELSE IF sh.header_fetch = "raises"
          THEN reader' = [reader EXCEPT !.phase = "raised",
                                        !.seen_names = @ \cup {normalized_name}]
          ELSE IF ExtractHeaderRow(sh) \notin {"domestic", "foreign"}
          THEN reader' = [reader EXCEPT !.pos = @ + 1,
                                        !.seen_names = @ \cup {normalized_name}]
          ELSE \E res \in {ReadTradesFromSheet(sh, ExtractHeaderRow(sh) = "foreign",
                                               normalized_name)} :
                  reader' = IF res.raised
                            THEN [reader EXCEPT !.phase = "raised",
                                                !.seen_names = @ \cup {normalized_name}]
                            ELSE [reader EXCEPT !.pos = @ + 1,
                                                !.seen_names = @ \cup {normalized_name},
                                                !.all_trades = @ \o res.ret]
    /\ ReadFrame

\* return all_trades
ReturnAllTrades ==
    /\ reader.phase = "reading"
    /\ reader.pos > Len(reader.sheets)
    /\ reader' = [reader EXCEPT !.phase = "returned"]
    /\ ReadFrame

NextRead == ListForRead \/ ReadOneSheet \/ ReturnAllTrades

SpecRead == InitRead /\ [][NextRead]_vars

-----------------------------------------------------------------------------
(* SpecDry: process_trading_log with and without dry_run, at the level of   *)
(* the requests it sends to the spreadsheet.                                *)

\* trades of one category in the file
MaxCategoryTrades == 2

\* two of the four keys of classified_trades, in the order of target_sheets
Categories == <<"stock buy", "stock sell">>

\* one category of a file: whether find_target_sheets found its sheet, how
\* many trades the file has for it and how many of them check_duplicates
\* reports
CategoryInputs ==
    { c \in [ has_sheet : BOOLEAN, trades : 0..MaxCategoryTrades,
              duplicates : 0..MaxCategoryTrades ] : c.duplicates <= c.trades }

\* step 5: the categories that get an entry in sheet_trades and results
PreparedCategories(input) ==
    { k \in 1..Len(Categories) :
        /\ input[k].trades > 0 /\ input[k].has_sheet
        /\ input[k].trades - input[k].duplicates > 0 }

\* results[category] = len(non_duplicate_trades)
PreparedCounts(input) ==
    [k \in PreparedCategories(input) |-> input[k].trades - input[k].duplicates]

\* the requests of steps 3 and 5: the sheet list, then per category with
\* trades and a sheet the metadata and grid of the extent scan and of the
\* duplicate check
RECURSIVE ReadRequests(_, _)
ReadRequests(input, k) ==
    IF k > Len(Categories) THEN <<>>
    ELSE (IF input[k].trades > 0 /\ input[k].has_sheet
          THEN << [kind |-> "read", what |-> "metadata", category |-> k],
                  [kind |-> "read", what |-> "grid", category |-> k],
                  [kind |-> "read", what |-> "metadata", category |-> k],
                  [kind |-> "read", what |-> "rows", category |-> k] >>
          ELSE <<>>)
         \o ReadRequests(input, k + 1)

\* batch_insert_trades: per prepared sheet the extent scan again, then the
\* values.batchUpdate; the colour call makes no request
RECURSIVE BatchRequests(_, _, _)
BatchRequests(prepared, k, part) ==
    IF k > Len(Categories) THEN <<>>
    ELSE (IF k \in prepared
          THEN IF part = "scan"
               THEN << [kind |-> "read", what |-> "metadata", category |-> k],
                       [kind |-> "read", what |-> "grid", category |-> k] >>
               ELSE << [kind |-> "write", what |-> "values.batchUpdate", category |-> k] >>
          ELSE <<>>)
         \o BatchRequests(prepared, k + 1, part)

\* a guard that looks at sheet_trades only
ShouldInsertAlways(dry_run, sheet_trades) == sheet_trades # {}

\* if not self.dry_run and sheet_trades:
ShouldInsert(dry_run, sheet_trades) == ~dry_run /\ sheet_trades # {}

InitDry ==
    /\ dry \in { [ dry_run |-> d, input |-> i, phase |-> "start", requests |-> <<>>,
                   results |-> <<>>, accepted |-> <<>> ] :
                 d \in BOOLEAN, i \in [1..Len(Categories) -> CategoryInputs] }
    /\ rows = <<>> /\ extent = Unscanned
    /\ impl = "none" /\ sheet = <<>> /\ runs = 0 /\ edits = 0
    /\ last = IdleRun /\ prev = IdleRun
    /\ trade = <<>> /\ cells = <<>> /\ keys = <<>> /\ norm = <<>>
    /\ fetch = <<>> /\ group = <<>> /\ retry = <<>> /\ batch = <<>> /\ book = <<>>
    /\ streak = <<>>
    /\ flow = <<>>
    /\ paint = <<>> /\ numfmt = <<>> /\ pct = <<>> /\ reach = <<>> /\ reader = <<>>

\* process_trading_log(trading_log); accepted[k] tells whether the write to
\* the sheet of category k succeeds
ProcessFile(accepted) ==
    /\ dry.phase = "start"
    /\ \E prepared \in {PreparedCategories(dry.input)} :
       \E inserts \in {ShouldInsert(dry.dry_run, prepared)} :
          dry' = [dry EXCEPT
             !.phase = "returned",
             !.accepted = accepted,
             !.requests =
                <<[kind |-> "read", what |-> "sheet list", category |-> 0]>>
                \o ReadRequests(dry.input, 1)
                \o (IF inserts
                    THEN BatchRequests(prepared, 1, "scan") \o BatchRequests(prepared, 1, "write")
                    ELSE <<>>),
             !.results =
                [k \in prepared |->
                    IF inserts /\ ~accepted[k] THEN 0 ELSE PreparedCounts(dry.input)[k]]]
    /\ UNCHANGED <<streak, flow, impl, sheet, runs, edits, last, prev, rows, extent, trade, cells,
                   keys, norm, fetch, group, retry, batch, book, paint, numfmt, pct,
                   reach, reader>>

NextDry == \E accepted \in [1..Len(Categories) -> BOOLEAN] : ProcessFile(accepted)

SpecDry == InitDry /\ [][NextDry]_vars

-----------------------------------------------------------------------------
(* SpecInsert: the requests of one sheet's append, in the order they are    *)
(* sent: SheetWriter.insert_trades, and one sheet of batch_insert_trades    *)
(* with the count process_trading_log reports for it.                       *)

\* how the data write ends: accepted, False after an HttpError, or another
\* exception (for SheetManager: on each of its attempts)
WriteOutcomes == {"accepted", "http error", "raises"}

\* the format calls of insert_trades for a block at start_row
FormatCallsOf(is_foreign, currencies, start_row) ==
    IF ~is_foreign
    THEN <<FormatCall("domestic", DOMESTIC_FORMAT_COLS, "per column",
                      <<start_row, start_row + Len(currencies) - 1>>)>>
    ELSE <<FormatCall("common", FOREIGN_FORMATS_COMMON_COLS, "per column",
                      <<start_row, start_row + Len(currencies) - 1>>)>>
         \o AllCurrencyCalls(currencies, DateOrder(currencies, 1), 1, start_row)

\* the requests after the data write of SheetWriter: one per format call
FormatRequests(is_foreign, currencies, start_row) ==
    [k \in 1..Len(FormatCallsOf(is_foreign, currencies, start_row)) |->
        [kind |-> "format", ok |-> TRUE]]

\* the requests after the data write of SheetManager: apply_date_colors
\* sends what its call of batch_apply_colors issues
ColourRequests(dates, start_row) ==
    [k \in 1..Len(CallNotAwaited(RepeatCells(
                     ColorRanges(dates, DateOrder(dates, 1), 1, start_row, 1, 8))).issued) |->
        [kind |-> "colour", ok |-> TRUE]]

\* a flow that goes on to the formats whatever the write returned
GoesOnAlways(success) == TRUE

\* if not success: return 0 / if success: ... apply_date_colors
GoesOn(success) == success

InitInsert ==
    /\ flow \in { [ class |-> c, is_foreign |-> f, block |-> b, start_row |-> 2,
                     phase |-> "start", requests |-> <<>>, success |-> FALSE,
                     count |-> 0 ] :
                   c \in {"writer", "manager"}, f \in BOOLEAN,
                   b \in UNION {[1..n -> {"USD", "JPY"}] : n \in 0..MaxBlock} }
    /\ rows = <<>> /\ extent = Unscanned
    /\ impl = "none" /\ sheet = <<>> /\ runs = 0 /\ edits = 0
    /\ last = IdleRun /\ prev = IdleRun
    /\ trade = <<>> /\ cells = <<>> /\ keys = <<>> /\ norm = <<>>
    /\ fetch = <<>> /\ group = <<>> /\ retry = <<>> /\ batch = <<>> /\ book = <<>>
    /\ streak = <<>>
    /\ paint = <<>> /\ numfmt = <<>> /\ pct = <<>> /\ reach = <<>> /\ reader = <<>>
    /\ dry = <<>>

InsertFrame ==
    UNCHANGED <<streak, impl, sheet, runs, edits, last, prev, rows, extent, trade, cells,
                keys, norm, fetch, group, retry, batch, book, paint, numfmt, pct,
                reach, reader, dry>>

\* insert_trades: "if not trades: return 0", else find_last_row;
\* batch_insert_trades: find_last_row_with_column_info for the sheet
ScanForInsert ==
    /\ flow.phase = "start"
    /\ flow' = IF flow.class = "writer" /\ flow.block = <<>>
                THEN [flow EXCEPT !.phase = "returned", !.count = 0]
                ELSE [flow EXCEPT !.phase = "scanned",
                                   !.requests = Append(@, [kind |-> "read", ok |-> TRUE])]
    /\ InsertFrame

\* the data write: batch_update_cells, in SheetManager under
\* _retry_with_backoff and the try of the execution loop
WriteData(outcome) ==
    /\ flow.phase = "scanned"
    /\ flow' =
         IF flow.class = "writer" /\ outcome = "raises"
         THEN [flow EXCEPT !.phase = "raised",
                            !.requests = Append(@, [kind |-> "write", ok |-> FALSE])]
         ELSE IF flow.class = "manager" /\ outcome = "raises"
         THEN [flow EXCEPT
                 !.phase = "returned", !.count = 0,
                 !.requests = @ \o [k \in 1..CallSiteMaxRetries |-> [kind |-> "write", ok |-> FALSE]]]
         ELSE IF GoesOn(outcome = "accepted")
         THEN [flow EXCEPT !.phase = "written", !.success = outcome = "accepted",
                            !.requests = Append(@, [kind |-> "write", ok |-> outcome = "accepted"])]
         ELSE [flow EXCEPT !.phase = "returned", !.count = 0,
                            !.requests = Append(@, [kind |-> "write", ok |-> FALSE])]
    /\ InsertFrame

\* _apply_number_formats / apply_date_colors, then the count: len(trades),
\* and for SheetManager the results[category] that stays as prepared
FormatAndReturn ==
    /\ flow.phase = "written"
    /\ flow' = [flow EXCEPT
          !.phase = "returned",
          !.count = Len(flow.block),
          !.requests = @ \o (IF flow.class = "writer"
                             THEN FormatRequests(flow.is_foreign, flow.block, flow.start_row)
                             ELSE ColourRequests(flow.block, flow.start_row))]
    /\ InsertFrame

NextInsert ==
    \/ ScanForInsert
    \/ \E outcome \in WriteOutcomes : WriteData(outcome)
    \/ FormatAndReturn

SpecInsert == InitInsert /\ [][NextInsert]_vars

-----------------------------------------------------------------------------
(* SpecStreak: _calc_streaks over bounded sequences of sell records.  A     *)
(* record carries the two realised-profit fields of Trade by their sign     *)
(* and size in won: profit (in the traded currency) and profit_krw.         *)

MaxSells == 4

\* domestic records carry the same value in both fields (profit_krw=profit);
\* a foreign record carries two columns of the broker's file
Profits == {-5000, 0, 10000}
SellRecords == [profit : Profits, profit_krw : Profits]
SortedSells == UNION { [1..n -> SellRecords] : n \in 0..MaxSells }

\* a test that counts a zero profit as a win
IsWinOrZero(t) == t.profit_krw >= 0

\* if t.profit_krw > 0
IsWin(t) == t.profit_krw > 0

\* the loop of _calc_streaks from record i on, with the four counters
RECURSIVE CalcStreaksFrom(_, _, _, _, _, _)
CalcStreaksFrom(sorted_sells, i, max_wins, max_losses, cur_wins, cur_losses) ==
    IF i > Len(sorted_sells) THEN <<max_wins, max_losses, cur_wins, cur_losses>>
    ELSE IF IsWin(sorted_sells[i])
         THEN CalcStreaksFrom(sorted_sells, i + 1,
                              IF max_wins >= cur_wins + 1 THEN max_wins ELSE cur_wins + 1,
                              max_losses, cur_wins + 1, 0)
         ELSE CalcStreaksFrom(sorted_sells, i + 1, max_wins,
                              IF max_losses >= cur_losses + 1 THEN max_losses ELSE cur_losses + 1,
                              0, cur_losses + 1)

\* SummaryGenerator._calc_streaks(sorted_sells)
CalcStreaks(sorted_sells) == CalcStreaksFrom(sorted_sells, 1, 0, 0, 0, 0)

InitStreak ==
    /\ streak \in [sorted_sells : SortedSells, called : {FALSE}, result : {<<0, 0, 0, 0>>}]
    /\ rows = <<>> /\ extent = Unscanned
    /\ impl = "none" /\ sheet = <<>> /\ runs = 0 /\ edits = 0
    /\ last = IdleRun /\ prev = IdleRun
    /\ trade = <<>> /\ cells = <<>> /\ keys = <<>> /\ norm = <<>>
    /\ fetch = <<>> /\ group = <<>> /\ retry = <<>> /\ batch = <<>> /\ book = <<>>
    /\ paint = <<>> /\ numfmt = <<>> /\ pct = <<>> /\ reach = <<>> /\ reader = <<>>
    /\ dry = <<>> /\ flow = <<>>

CalcStreaksCall ==
    /\ ~streak.called
    /\ streak' = [streak EXCEPT !.called = TRUE, !.result = CalcStreaks(streak.sorted_sells)]
    /\ UNCHANGED <<impl, sheet, runs, edits, last, prev, rows, extent, trade, cells,
                   keys, norm, fetch, group, retry, batch, book, paint, numfmt, pct,
                   reach, reader, dry, flow>>

NextStreak == CalcStreaksCall

SpecStreak == InitStreak /\ [][NextStreak]_vars

-----------------------------------------------------------------------------
(* Properties of the extent scan (SpecScan) *)

\* the scan has run and both fetches succeeded
Scanned == extent # Unscanned /\ fetch # <<>> /\ fetch.metadata = "ok" /\ fetch.grid = "ok"

\* a cell that holds a value other than a blank string
NonBlank(cell) == cell.kind # "none" /\ cell.val \notin {"", " "}
\* a row in which no cell carries an effective value
EmptyRow(i) == \A c \in 1..Len(rows[i]) : rows[i][c].kind = "none"
DataCols(i) == { c \in 1..Len(rows[i]) : NonBlank(rows[i][c]) }
NoDataBeyondHeader == \A i \in 2..Len(rows) : EmptyRow(i)
\* the rows that start a run of EmptyRowThreshold consecutive empty rows
GapStarts ==
    { i \in 1..Len(rows) :
        /\ i + EmptyRowThreshold - 1 <= Len(rows)
        /\ \A j \in i..(i + EmptyRowThreshold - 1) : EmptyRow(j) }
FirstGap == IF GapStarts = {} THEN Len(rows) + 1 ELSE Min(GapStarts)
DataRowsBeforeGap == { i \in 1..(FirstGap - 1) : ~EmptyRow(i) }
\* row R is the only non-empty row below the header
OnlyDataRow(R) ==
    /\ R \in 2..Len(rows)
    /\ ~EmptyRow(R)
    /\ \A i \in 2..Len(rows) : i # R => EmptyRow(i)
\* row R is the last non-empty row of the grid and lies below the header
FinalDataRow(R) ==
    /\ R \in 2..Len(rows)
    /\ ~EmptyRow(R)
    /\ \A i \in (R + 1)..Len(rows) : EmptyRow(i)

\* C7 as stated: a grid with no non-empty row beyond the header row, whatever
\* the header row holds, scans to next row 2 and the default window 2..9.
C7_DefaultWindowAlways ==
    (Scanned /\ NoDataBeyondHeader) => extent = <<2, 2, 9>>

\* C7 amended: with no non-empty row beyond the header row the scan returns
\* next row 2; the window is the default 2..9 only when row 1 holds no
\* non-blank value, and otherwise the span of row 1's non-blank cells.
C7_HeaderOnlyExtent ==
    (Scanned /\ NoDataBeyondHeader) =>
        /\ extent[1] = 2
        /\ IF Len(rows) = 0 \/ DataCols(1) = {}
           THEN <<extent[2], extent[3]>> = <<2, 9>>
           ELSE <<extent[2], extent[3]>> = <<Min(DataCols(1)), Max(DataCols(1))>>

\* C7 witness: a scanned grid with a non-empty header row, empty rows below
\* it, and a reported window that is the header's span, not the default.
C7_Witness ==
    /\ Scanned /\ NoDataBeyondHeader /\ Len(rows) >= 2
    /\ DataCols(1) # {}
    /\ <<extent[2], extent[3]>> # <<2, 9>>

\* C8 as stated: when row R is the only data row below the header and its
\* non-blank cells span [c0, c1], the scan returns (R+1, c0, c1).
C8_OnlyDataRowAlways ==
    Scanned =>
        \A R \in 2..Len(rows) :
            (OnlyDataRow(R) /\ DataCols(R) # {}) =>
                extent = <<R + 1, Min(DataCols(R)), Max(DataCols(R))>>

\* C8 amended: when row R is the last data row below the header, its
\* non-blank cells span [c0, c1] and no run of emptyRowThreshold consecutive
\* empty rows precedes R, the scan returns (R+1, c0, c1), whatever the header
\* row or earlier rows hold and whatever empty cells lie between c0 and c1.
C8_LastDataRowExtent ==
    Scanned =>
        \A R \in 2..Len(rows) :
            (FinalDataRow(R) /\ DataCols(R) # {} /\ FirstGap > R) =>
                extent = <<R + 1, Min(DataCols(R)), Max(DataCols(R))>>

\* C8 witness: the last data row has an empty cell inside its span and uses
\* other columns than the header row, and the scan reports that row's span.
C8_Witness ==
    /\ Scanned
    /\ \E R \in 2..Len(rows) :
        /\ FinalDataRow(R) /\ FirstGap > R
        /\ DataCols(R) # {} /\ DataCols(R) # DataCols(1)
        /\ \E c \in Min(DataCols(R))..Max(DataCols(R)) : c \notin DataCols(R)
        /\ extent = <<R + 1, Min(DataCols(R)), Max(DataCols(R))>>

\* C9: the reported last data row is the last non-empty row before the first
\* run of emptyRowThreshold consecutive empty rows (row 1 when there is
\* none), never a row after that run; shorter runs do not stop the scan.
C9_StopsAtThreshold ==
    Scanned =>
        extent[1] - 1 =
            IF DataRowsBeforeGap = {} THEN 1 ELSE Max(DataRowsBeforeGap)

\* C9 witness: data rows separated by a single empty row were scanned
\* through, and a non-empty row past a full run of empty rows was not reported.
C9_Witness ==
    /\ Scanned
    /\ GapStarts # {}
    /\ \E i \in (FirstGap + EmptyRowThreshold)..Len(rows) : ~EmptyRow(i)
    /\ DataRowsBeforeGap # {}
    /\ extent[1] - 1 = Max(DataRowsBeforeGap)

-----------------------------------------------------------------------------
(* Properties of the duplicate key (SpecKey) *)

\* C5: the duplicate key of the freshly parsed record equals the key that
\* get_existing_keys builds from the row the record was written as, for both
\* layouts and whether quantity and price come back as int, float or
\* comma-formatted string.
C5_KeyRoundTrip ==
    keys # <<>> => keys.existing = keys.fresh

\* C5 witness: a record with a non-integral price and a quantity above 999
\* came back with the quantity as comma-formatted text and was keyed.
C5_Witness ==
    /\ keys # <<>>
    /\ trade.rec.price % 100 # 0
    /\ trade.rec.quantity = 2823000
    /\ \E i \in 1..Len(cells) : cells[i].sv = PyStr(<<"2", "8", ",", "2", "3", "0">>)
    /\ trade.is_foreign
    /\ keys.existing[4] = <<"2", "8", "2", "3", "0">>

\* C6: for an integral value the float, the int, the decimal string and the
\* comma-grouped string normalise to one string (which is also _num_str of
\* the float), and normalising a normalised string returns it unchanged.
C6_RepresentationInvariant ==
    norm # <<>> =>
        /\ norm.again = norm.grouped
        /\ trade.rec.quantity % 100 = 0 =>
              /\ norm.float = norm.int
              /\ norm.int = norm.decimal
              /\ norm.decimal = norm.grouped
              /\ norm.grouped = norm.num_str

\* C6 witness: 28230 was normalised from all four representations to "28230".
C6_Witness ==
    /\ norm # <<>>
    /\ trade.rec.quantity = 2823000
    /\ norm.grouped = <<"2", "8", "2", "3", "0">>
    /\ norm.float = <<"2", "8", "2", "3", "0">>

-----------------------------------------------------------------------------
(* Properties of the append runs (Spec) *)

Ran == last.kind = "run"
Accepted == Len(last.accepted)

\* rows of a sheet that hold a non-empty cell in some column
NonEmptyRows(sh) == {r \in 1..RowCount : \E c \in 1..ColumnCount : sh[r][c] # ""}
\* rows the run wrote
WrittenRows == IF last.ok THEN last.start_row .. (last.start_row + Accepted - 1) ELSE {}

\* the row a fresh scan of sh reports as next writable
NextWritableRow(sh) ==
    IF impl = "manager" THEN FindLastRowWithColumnInfo(sh)[1] ELSE FindLastRow(sh)
\* row q of sh is empty as far as the scan of the running class can see
ScanSeesEmpty(sh, q) ==
    IF impl = "manager" THEN \A c \in 1..ColumnCount : sh[q][c] = ""
    ELSE sh[q][1] = ""
ThresholdInUse == IF impl = "manager" THEN EmptyRowThreshold ELSE WriterEmptyThreshold

\* C1: a second run with the same records, against the sheet as the first
\* successful run left it, accepts no record and writes no row.
C1_RerunWritesNothing ==
    ( /\ Ran /\ impl = "manager"
      /\ prev.kind = "run" /\ prev.ok
      /\ last.trades = prev.trades
      /\ last.before = prev.after )
    => ( last.accepted = <<>> /\ last.after = last.before )

\* C2: every row written by an append has a row index greater than every row
\* that held a non-empty cell, in any column, before the append.
C2_NeverOverwrites ==
    (Ran /\ last.ok) =>
        \A w \in WrittenRows : \A q \in NonEmptyRows(last.before) : w > q

\* C3: the duplicate filter splits the records by key membership: accepted
\* plus rejected is the number of records, the accepted records are exactly
\* those whose key is not in the index, in their original order, and the
\* index is the one built from the existing rows (empty when the read failed).
C3_FilterIsSetDifference ==
    Ran =>
        /\ Accepted + Cardinality(last.duplicates) = Len(last.trades)
        /\ \A i \in 1..Accepted :
              <<last.accepted[i].stock_name, last.accepted[i].date>> \notin last.existing
        /\ last.accepted =
              SelectSeq(last.trades,
                        LAMBDA t : <<t.stock_name, t.date>> \notin last.existing)
        /\ impl = "manager" => last.existing \in {ExistingTrades(last.before), {}}

\* C3 witness: a run over two records and a non-empty index rejected one
\* record and accepted the other.
C3_Witness ==
    /\ Ran /\ impl = "manager"
    /\ Len(last.trades) = 2
    /\ Cardinality(last.duplicates) = 1
    /\ Accepted = 1
    /\ last.existing # {}

\* row q of sh holds the cells of record t (name, date, type, price, quantity)
HoldsRecord(sh, q, t) ==
    \E c0 \in 1..ColumnCount :
        \A k \in 1..Len(ToSheetRow(t)) :
            ToSheetRow(t)[k] # "" =>
                (c0 + k - 1 <= ColumnCount /\ sh[q][c0 + k - 1] = ToSheetRow(t)[k])

\* C4: a record is rejected only if some existing row carries the same date,
\* type, name, quantity and price.
C4_RejectedOnlyOnFullKey ==
    (Ran /\ impl = "manager") =>
        \A i \in last.duplicates :
            \E q \in 2..RowCount : HoldsRecord(last.before, q, last.trades[i])

\* C10 as stated: after a successful append of n records at row r a fresh
\* scan returns r + n.
C10_TracksAppends ==
    (Ran /\ last.ok) => NextWritableRow(last.after) = last.start_row + Accepted

\* C10: the start row of every append is the scan of the sheet as it is at
\* that append, and after a successful append of n records at row r a fresh
\* scan returns r + n exactly when none of the threshold-many rows after the
\* appended block holds a cell the scan sees as non-empty.
C10_TracksAppendsUpToGap ==
    Ran =>
        /\ last.start_row = NextWritableRow(last.before)
        /\ last.ok =>
              ( NextWritableRow(last.after) = last.start_row + Accepted
                <=> \A q \in (last.start_row + Accepted) .. RowCount :
                        q < last.start_row + Accepted + ThresholdInUse
                            => ScanSeesEmpty(last.after, q) )

\* C10 witness: a second run appended two records at row 4 after a human
\* edit, and a fresh scan reports row 6.
C10_Witness ==
    /\ Ran /\ last.ok /\ prev.kind = "run" /\ prev.ok
    /\ edits = 1
    /\ Accepted = 2
    /\ last.start_row = 4
    /\ NextWritableRow(last.after) = 6

-----------------------------------------------------------------------------
(* Properties of the scan's error handling (SpecScan) *)

DefaultExtent == <<2, 2, 9>>

\* C11 as stated: whenever the metadata fetch or the grid fetch raises or
\* returns an empty result, the scan returns (2, 2, 9) and raises nothing.
C11_AnyFailureGivesDefault ==
    ( /\ fetch # <<>>
      /\ \/ fetch.metadata \in {"raises", "empty"}
         \/ fetch.grid \in {"raises", "empty"} )
    => (extent = DefaultExtent /\ ~fetch.raised)

\* C11: the scan never raises; it returns (2, 2, 9) when the metadata fetch
\* raises or the grid fetch raises or returns an empty result; when the
\* metadata fetch returns an empty result (or lacks the sheet) and the grid
\* fetch succeeds it returns the extent of the fetched rows.
C11_FailureHandling ==
    fetch # <<>> =>
        /\ ~fetch.raised
        /\ (fetch.metadata = "raises" \/ fetch.grid \in {"raises", "empty"})
              => extent = DefaultExtent
        /\ (fetch.metadata \in {"empty", "no sheet"} /\ fetch.grid = "ok")
              => extent = ExtentOfRows(rows, EmptyRowThreshold)

\* C11 witness: the grid fetch raised over a grid with data in row 3 and the
\* scan returned the default extent.
C11_Witness ==
    /\ fetch # <<>>
    /\ fetch.grid = "raises"
    /\ Len(rows) >= 3 /\ rows[3] = <<V, V>>
    /\ extent = DefaultExtent
    /\ ExtentOfRows(rows, EmptyRowThreshold) # DefaultExtent

-----------------------------------------------------------------------------
(* Properties of failed reads and of the write request (Spec) *)

\* C12: when the read of the existing rows fails (empty result or exception)
\* the duplicate index is empty, nothing is raised to the caller, no record
\* is rejected and all records go to the write.
C12_FailOpen ==
    (Ran /\ impl = "manager" /\ last.outcome \in {"read failed", "read raises"}) =>
        /\ last.existing = {}
        /\ ~last.raised
        /\ last.duplicates = {}
        /\ last.accepted = last.trades
        /\ Len(last.rows_data) = Len(last.trades)
        /\ last.ok = (last.trades # <<>> /\ WithinGrid(last.start_row, Len(last.trades),
                                                       last.end_col))

\* C12 witness: the read failed on a sheet that already held both records of
\* the run, and both were written again.
C12_Witness ==
    /\ Ran /\ impl = "manager" /\ last.outcome = "read failed"
    /\ Len(last.trades) = 2
    /\ \A i \in 1..2 :
          <<last.trades[i].stock_name, last.trades[i].date>> \in ExistingTrades(last.before)
    /\ last.ok
    /\ last.after # last.before

\* the row a record is projected to before it is fitted to the window
Projected(t) == IF impl = "manager" THEN ToSheetRow(t) ELSE DomesticRowText(t)
TargetColumns == last.end_col - last.start_col + 1

\* C13: every row of the write request has exactly the target column count,
\* being the projected row truncated, or padded on the right with empty
\* strings; there is one row per record; the range spans rows start_row ..
\* start_row + len(records) - 1, and a successful write changes no cell
\* outside that block.
C13_RowsFitTheWindow ==
    Ran =>
        /\ Len(last.rows_data) = Accepted
        /\ last.end_row = last.start_row + Accepted - 1
        /\ \A i \in 1..Accepted :
              LET row == last.rows_data[i]
                  full == Projected(last.accepted[i])
              IN  /\ Len(row) = TargetColumns
                  /\ \A k \in 1..TargetColumns :
                        row[k] = IF k <= Len(full) THEN full[k] ELSE ""
        /\ last.ok =>
              \A r \in 1..RowCount, c \in 1..ColumnCount :
                  IF /\ r >= last.start_row /\ r <= last.end_row
                     /\ c >= last.start_col /\ c <= last.end_col
                  THEN last.after[r][c] = last.rows_data[r - last.start_row + 1]
                                                        [c - last.start_col + 1]
                  ELSE last.after[r][c] = last.before[r][c]

\* C13 witness: one run wrote a record into a one-column window (truncated)
\* and the run before it wrote one into a nine-column window (padded).
C13_Witness ==
    /\ Ran /\ last.ok /\ impl = "manager"
    /\ TargetColumns = 1 /\ last.rows_data[1] = <<last.accepted[1].stock_name>>
    /\ prev.kind = "run" /\ prev.ok
    /\ prev.end_col - prev.start_col + 1 = 9
    /\ Len(prev.rows_data[1]) = 9 /\ prev.rows_data[1][9] = ""

-----------------------------------------------------------------------------
(* Properties of the grouper (SpecGroup) *)

GroupInput == {group.rows[i] : i \in 1..Len(group.rows)}

\* C14: the pairs are inclusive, strictly ascending and non-adjacent (each
\* start exceeds the previous end by more than one), their union is exactly
\* the input set, and the empty input gives the empty list.
C14_MaximalRuns ==
    group.done =>
        /\ \A k \in 1..Len(group.out) : group.out[k][1] <= group.out[k][2]
        /\ \A k \in 1..(Len(group.out) - 1) : group.out[k + 1][1] > group.out[k][2] + 1
        /\ UNION { group.out[k][1] .. group.out[k][2] : k \in 1..Len(group.out) }
              = GroupInput
        /\ (GroupInput = {}) = (group.out = <<>>)
        /\ GroupInput = {3, 4, 5, 9, 10, 12}
              => group.out = << <<3, 5>>, <<9, 10>>, <<12, 12>> >>

\* C14 witness: {3,4,5,9,10,12}, given in descending order to the module
\* function, came out as (3,5), (9,10), (12,12).
C14_Witness ==
    /\ group.done /\ group.which = "writer"
    /\ group.rows = <<12, 10, 9, 5, 4, 3>>
    /\ group.out = << <<3, 5>>, <<9, 10>>, <<12, 12>> >>

-----------------------------------------------------------------------------
(* Properties of the retry loop (SpecRetry) *)

Retrying == retry.phase # "idle"
RetryOver == retry.phase \in {"returned", "raised"}
AttemptsAt == {i \in 1..Len(retry.log) : retry.log[i].kind = "attempt"}
SleepsAt == {i \in 1..Len(retry.log) : retry.log[i].kind = "sleep"}
AttemptRaised(i) == BatchUpdateCellsResult(retry.log[i].service).raised

\* C15: the operation is invoked at most max_retries times; the call returns
\* the result of the first attempt that does not raise, and nothing follows
\* that attempt; when every attempt raises there are exactly max_retries
\* attempts and the exception of the last one is raised; the attempt counter
\* of a call counts only that call's failed attempts, starting at 0.
C15_BoundedAttempts ==
    Retrying =>
        /\ Cardinality(AttemptsAt) <= retry.max_retries
        /\ retry.attempt = Cardinality(SleepsAt)
        /\ retry.log = <<>> => retry.attempt = 0
        /\ \A i \in AttemptsAt : i < Len(retry.log) => AttemptRaised(i)
        /\ retry.phase = "returned" =>
              /\ Len(retry.log) \in AttemptsAt
              /\ ~AttemptRaised(Len(retry.log))
              /\ retry.result = BatchUpdateCellsResult(retry.log[Len(retry.log)].service).ret
        /\ retry.phase = "raised" =>
              /\ Cardinality(AttemptsAt) = retry.max_retries
              /\ \A i \in AttemptsAt : AttemptRaised(i)
              /\ Len(retry.log) \in AttemptsAt
              /\ retry.error = retry.log[Len(retry.log)].n
              /\ retry.error = retry.max_retries

\* C15 witness: the second call of a behaviour, with max_retries = 3, made
\* three attempts that all raised and then raised the third exception.
C15_Witness ==
    /\ retry.phase = "raised" /\ retry.invocations = 2
    /\ retry.max_retries = 3
    /\ Cardinality(AttemptsAt) = 3
    /\ retry.error = 3

\* C16: every sleep follows a failed attempt k that is not the last allowed
\* one and lasts initial_delay * 2^(k-1); every such failed attempt is
\* followed by that sleep before the next attempt; nothing follows the final
\* failed attempt or a success.
C16_DoublingDelays ==
    Retrying =>
        /\ \A i \in SleepsAt :
              /\ i > 1 /\ (i - 1) \in AttemptsAt /\ AttemptRaised(i - 1)
              /\ retry.log[i].n = retry.log[i - 1].n
              /\ retry.log[i].n < retry.max_retries
              /\ retry.log[i].delay = retry.initial_delay * Pow2(retry.log[i].n - 1)
        /\ \A i \in AttemptsAt :
              i < Len(retry.log) => (i + 1) \in SleepsAt
        /\ RetryOver => Len(retry.log) \in AttemptsAt
        /\ retry.phase = "call" => (retry.log = <<>> \/ Len(retry.log) \in SleepsAt)

\* C16 witness: with initial_delay = 1 and max_retries = 4 the call slept
\* 1, 2 and 4 between its four failed attempts and then raised.
C16_Witness ==
    /\ retry.phase = "raised"
    /\ retry.initial_delay = 1 /\ retry.max_retries = 4
    /\ Len(retry.log) = 7
    /\ retry.log[2].delay = 1 /\ retry.log[4].delay = 2 /\ retry.log[6].delay = 4

\* C17: a write that failed at the service is attempted again until it
\* succeeds or three attempts have been made.
C17_FailedWriteIsRetried ==
    (RetryOver /\ retry.max_retries = CallSiteMaxRetries) =>
        \/ retry.log[Len(retry.log)].service = "accepted"
        \/ Cardinality(AttemptsAt) = CallSiteMaxRetries

-----------------------------------------------------------------------------
(* Properties of the batch loop (SpecBatch) *)

Prepared == {batch.prepared[i] : i \in 1..Len(batch.prepared)}
WriteFailed(outcome) == outcome \in {"http error", "raises"}

\* C18: the result of a sheet whose write failed is False, a failure never
\* ends the loop (the call does not raise and returns only after every
\* prepared sheet was attempted), and the returned map has one entry for
\* every sheet with a prepared write.
C18_SheetsAreIndependent ==
    batch.phase # "idle" =>
        /\ batch.phase # "raised"
        /\ DOMAIN batch.results = {batch.prepared[i] : i \in 1..Len(batch.outcomes)}
        /\ \A i \in 1..Len(batch.outcomes) :
              /\ WriteFailed(batch.outcomes[i]) => ~batch.results[batch.prepared[i]]
              /\ batch.outcomes[i] = "accepted" => batch.results[batch.prepared[i]]
        /\ batch.phase = "writing" => batch.pos = Len(batch.outcomes) + 1
        /\ batch.phase = "returned" =>
              /\ Len(batch.outcomes) = Len(batch.prepared)
              /\ DOMAIN batch.results = Prepared
              /\ batch.zeroed = {sh \in Prepared : ~batch.results[sh]}

\* C18 witness: of three sheets the first write raised, the second was
\* refused and the third was accepted; the map has all three.
C18_Witness ==
    /\ batch.phase = "returned"
    /\ batch.outcomes = <<"raises", "http error", "accepted">>
    /\ batch.results = (1 :> FALSE) @@ (2 :> FALSE) @@ (3 :> TRUE)
    /\ batch.zeroed = {1, 2}

-----------------------------------------------------------------------------
(* Properties of the sheet caches (SpecBook) *)

IdCacheFresh == \A e \in book.sheet_id_cache : e[2] = book.creations
NameCacheFresh == book.sheet_cache.filled => book.sheet_cache.at = book.creations
Ensured == book.call.op = "ensure_sheet_exists"

\* C19: after a sheet was created, by ensure_sheet_exists or by
\* _ensure_dashboard_sheet, neither cache holds what was fetched before the
\* creation, and the list ensure_sheet_exists looks a name up in was never
\* fetched before a creation that preceded the call.
C19_NoStaleCaches ==
    /\ IdCacheFresh
    /\ NameCacheFresh
    /\ Ensured => book.call.seen_at = book.call.creations_before

\* C20: ensure_sheet_exists returns True exactly when the call created the
\* sheet and wrote its header; for a sheet that existed it returns False,
\* creates nothing and writes no header.
C20_ReturnsCreated ==
    (Ensured /\ ~book.call.raised) =>
        /\ book.call.ret <=> (book.call.created /\ book.call.header_written)
        /\ book.call.existed =>
              ~book.call.ret /\ ~book.call.created /\ ~book.call.header_written

-----------------------------------------------------------------------------
(* Properties of the date colours (SpecColour) *)

\* the rows (1-based) a repeatCell range covers, and the colour the issued
\* request leaves on a row: that of the last range covering it
CoveredRows(cell) == (cell.startRowIndex + 1)..cell.endRowIndex
Covering(r) == {k \in 1..Len(paint.issued) : r \in CoveredRows(paint.issued[k])}
BlockRows == paint.start_row..(paint.start_row + Len(paint.dates) - 1)

\* position of a date in order of first appearance, from 0
DatePosition(d) ==
    CHOOSE k \in 0..Len(paint.dates) : DateOrder(paint.dates, 1)[k + 1] = d

\* C21: after the write of a block, the colour request that was issued gives
\* every row of the block palette[k mod 8], k the position of the row's date
\* in order of first appearance, and colours no row outside the block.
C21_BlockIsColoured ==
    (paint.phase = "returned" /\ paint.dates # <<>>) =>
        /\ \A r \in BlockRows :
              /\ Covering(r) # {}
              /\ paint.issued[Max(Covering(r))].backgroundColor
                    = DatePosition(paint.dates[r - paint.start_row + 1]) % PaletteSize
        /\ \A k \in 1..Len(paint.issued) : CoveredRows(paint.issued[k]) \subseteq BlockRows

-----------------------------------------------------------------------------
(* Properties of the number formats (SpecFormat) *)

FormattedForeign == numfmt.done /\ numfmt.is_foreign
CallsOfKind(kind) == {k \in 1..Len(numfmt.calls) : numfmt.calls[k].kind = kind}
CurrencyOfRow(r) == numfmt.currencies[r - numfmt.start_row + 1]
InsertedRows == numfmt.start_row..numfmt.end_row

\* C22: a foreign append makes one call with the common formats over
\* start_row .. end_row; every inserted row is covered by exactly one
\* currency call, which sets columns 7, 8, 11, 12, 13 to the pattern of the
\* row's currency (the default pattern for a currency without one); each
\* currency call covers a maximal run of rows of one currency inside the
\* inserted range.
C22_FormatsFollowCurrency ==
    FormattedForeign =>
        /\ \E k \in 1..Len(numfmt.calls) :
              /\ CallsOfKind("common") = {k}
              /\ numfmt.calls[k].cols = {6, 9, 10, 14, 15}
              /\ numfmt.calls[k].start_row = numfmt.start_row
              /\ numfmt.calls[k].end_row = numfmt.end_row
        /\ CallsOfKind("domestic") = {}
        /\ \A r \in InsertedRows :
              \E k \in CallsOfKind("currency") :
                 /\ {j \in CallsOfKind("currency") :
                        r \in numfmt.calls[j].start_row..numfmt.calls[j].end_row} = {k}
                 /\ numfmt.calls[k].pattern =
                       ( IF CurrencyOfRow(r) = "USD" THEN "USD #,##0.00"
                         ELSE IF CurrencyOfRow(r) = "JPY" THEN "JPY #,##0"
                         ELSE "#,##0.00" )
        /\ \A k \in CallsOfKind("currency") :
              LET c == numfmt.calls[k] IN
              /\ c.cols = {7, 8, 11, 12, 13}
              /\ c.start_row <= c.end_row
              /\ c.start_row..c.end_row \subseteq InsertedRows
              /\ \A r \in c.start_row..c.end_row : CurrencyOfRow(r) = CurrencyOfRow(c.start_row)
              /\ c.start_row > numfmt.start_row =>
                    CurrencyOfRow(c.start_row - 1) # CurrencyOfRow(c.start_row)
              /\ c.end_row < numfmt.end_row =>
                    CurrencyOfRow(c.end_row + 1) # CurrencyOfRow(c.end_row)

\* C22 witness: USD, JPY, USD from row 2: the common call, then rows 2 and 4
\* in two USD calls and row 3 in a JPY call
C22_Witness ==
    /\ FormattedForeign
    /\ numfmt.currencies = <<"USD", "JPY", "USD">>
    /\ numfmt.start_row = 2
    /\ Len(numfmt.calls) = 4
    /\ numfmt.calls[2].end_row = 2 /\ numfmt.calls[3].start_row = 4
    /\ numfmt.calls[4].pattern = "JPY #,##0"

-----------------------------------------------------------------------------
(* Properties of the profit rate (SpecRate) *)

RateZeroRoundTrip ==
    (pct.phase = "read" /\ pct.hundredths = 0) =>
        pct.cell = FloatZero /\ pct.read = FloatZero

-----------------------------------------------------------------------------
(* Properties of the fetch ranges (SpecReach) *)

InRows(r, returned) == returned.first <= r /\ r <= returned.last

\* C24: with the row count read from the metadata, every data row up to
\* rowCount is in the rows fetched for the extent scan and in the rows
\* fetched for the duplicate-key index.
C24_ReadsReachRowCount ==
    (reach.phase = "indexed" /\ reach.metadata = "ok") =>
        \A r \in {x \in DataRows : 2 <= x /\ x <= reach.data_row} :
            InRows(r, reach.scanned) /\ InRows(r, reach.indexed)

\* the extent scan's fetch alone does reach the row count
ExtentFetchReachesRowCount ==
    (reach.phase # "start" /\ reach.metadata = "ok") =>
        reach.scanned.last = reach.row_count

-----------------------------------------------------------------------------
(* Properties of read_all_trades (SpecRead) *)

\* the sheets the list gave, and whether sheet i is the first of its
\* normalized name
FirstOfItsName(i) ==
    \A j \in 1..(i - 1) : NormalizeNFC(reader.sheets[j].name) # NormalizeNFC(reader.sheets[i].name)
ReadFailed(i) ==
    reader.sheets[i].header_fetch # "ok" \/ reader.sheets[i].data_fetch # "ok"

\* the records sheet i has to contribute: those of its rows that have the
\* cells of its layout and a date, when it is the first of its name, has one
\* of the two headers and was read
ExpectedOfSheet(i) ==
    LET sh == reader.sheets[i] IN
    IF FirstOfItsName(i) /\ ~ReadFailed(i) /\ sh.header \in {"domestic", "foreign"}
    THEN SelectSeq([k \in 1..Len(DataRowShapes) |->
                       [account |-> NormalizeNFC(sh.name), is_foreign |-> sh.header = "foreign",
                        row |-> k + 1, date |-> DataRowShapes[k].date]],
                   LAMBDA t : /\ t.date # ""
                              /\ DataRowShapes[t.row - 1].cells
                                    >= (IF t.is_foreign THEN 15 ELSE 9))
    ELSE <<>>

RECURSIVE ExpectedFrom(_)
ExpectedFrom(i) ==
    IF i > Len(reader.sheets) THEN <<>> ELSE ExpectedOfSheet(i) \o ExpectedFrom(i + 1)

ReadOver == reader.phase \in {"returned", "raised"} /\ reader.list = "ok"

\* C25: read_all_trades returns, without raising whatever read of a sheet
\* failed, the records of the sheets with the domestic or the foreign
\* header, each read with its layout, skipping short rows and rows without
\* a date, and reading only the first sheet of each NFC-normalized name.
C25_ReadAllTrades ==
    ReadOver => reader.phase = "returned" /\ reader.all_trades = ExpectedFrom(1)

\* C25 as it holds: the call raises exactly when the header fetch of a sheet
\* that is the first of its name raises an exception other than HttpError;
\* otherwise it returns the records above, and a sheet whose header fetch
\* got an HttpError or whose data fetch failed in either way contributes
\* nothing.
C25_ReadAllTradesUnlessHeaderRaises ==
    ReadOver =>
        IF \E i \in 1..Len(reader.sheets) :
              FirstOfItsName(i) /\ reader.sheets[i].header_fetch = "raises"
        THEN reader.phase = "raised"
        ELSE reader.phase = "returned" /\ reader.all_trades = ExpectedFrom(1)

\* C25 witness: the first sheet has the domestic header and gives its two
\* dated rows of at least 9 cells; the second has the foreign header and
\* its data fetch raises
C25_Witness ==
    /\ reader.phase = "returned" /\ reader.list = "ok"
    /\ Len(reader.sheets) = 2
    /\ reader.sheets[1].header = "domestic" /\ ~ReadFailed(1)
    /\ reader.sheets[2].header = "foreign" /\ reader.sheets[2].header_fetch = "ok"
    /\ reader.sheets[2].data_fetch = "raises"
    /\ Len(reader.all_trades) = 2
    /\ \A k \in 1..2 : ~reader.all_trades[k].is_foreign

\* of two sheets with one normalized name only the first is read, even when
\* only the second has a journal header
OnlyFirstOfANameIsRead ==
    (reader.phase = "returned" /\ reader.list = "ok") =>
        \A k \in 1..Len(reader.all_trades) :
            \E i \in 1..Len(reader.sheets) :
                FirstOfItsName(i) /\ NormalizeNFC(reader.sheets[i].name) = reader.all_trades[k].account

-----------------------------------------------------------------------------
(* Properties of the dry run (SpecDry) *)

Writes == {k \in 1..Len(dry.requests) : dry.requests[k].kind = "write"}
NonDuplicates(k) == dry.input[k].trades - dry.input[k].duplicates

\* C26: a dry run sends no mutating request, and reports for every category
\* with a sheet the number of non-duplicate trades it would insert (no entry
\* when there is none), whatever the writes would have met.
C26_DryRunWritesNothing ==
    (dry.phase = "returned" /\ dry.dry_run) =>
        /\ Writes = {}
        /\ \A k \in 1..Len(Categories) :
              IF dry.input[k].has_sheet /\ NonDuplicates(k) > 0
              THEN k \in DOMAIN dry.results /\ dry.results[k] = NonDuplicates(k)
              ELSE k \notin DOMAIN dry.results

\* C26 witness: a dry run of a file with two new trades for the first
\* category and one new trade among two for the second
C26_Witness ==
    /\ dry.phase = "returned" /\ dry.dry_run
    /\ dry.input[1] = [has_sheet |-> TRUE, trades |-> 2, duplicates |-> 0]
    /\ dry.input[2] = [has_sheet |-> TRUE, trades |-> 2, duplicates |-> 1]
    /\ dry.results = (1 :> 2) @@ (2 :> 1)
    /\ Len(dry.requests) = 9

\* the same file without dry_run and with every write accepted reports the
\* same counts and does write
RealRunReportsTheSameCounts ==
    (dry.phase = "returned" /\ ~dry.dry_run /\ \A k \in DOMAIN dry.results : dry.accepted[k]) =>
        /\ \A k \in DOMAIN dry.results : dry.results[k] = NonDuplicates(k)
        /\ (DOMAIN dry.results # {}) => Writes # {}

-----------------------------------------------------------------------------
(* Write and duplicate check on the same columns (Spec) *)

\* C27: whatever window (start_col, end_col) the scan returned, every record
\* an append of SheetManager wrote is in the index check_duplicates builds
\* from the sheet after the append: its name is in column A and its date in
\* column C.
C27_WriteAndCheckAgree ==
    (Ran /\ impl = "manager" /\ last.ok) =>
        \A i \in 1..Len(last.accepted) :
            <<last.accepted[i].stock_name, last.accepted[i].date>> \in ExistingTrades(last.after)

\* the same for the windows that start in column A and have at least three
\* columns
WriteAndCheckAgreeFromColumnA ==
    (Ran /\ impl = "manager" /\ last.ok /\ last.start_col = 1 /\ last.end_col >= 3) =>
        \A i \in 1..Len(last.accepted) :
            <<last.accepted[i].stock_name, last.accepted[i].date>> \in ExistingTrades(last.after)

-----------------------------------------------------------------------------
(* Properties of the order of requests (SpecInsert) *)

Decorations == {k \in 1..Len(flow.requests) : flow.requests[k].kind \in {"format", "colour"}}
AcceptedWrites == {k \in 1..Len(flow.requests) :
                      flow.requests[k].kind = "write" /\ flow.requests[k].ok}

\* C28: a number-format or colour request of a sheet is sent only after the
\* sheet's data write was accepted; when the write fails or there is no
\* record, none is sent, and the count reported when the call returns is 0.
C28_FormatsOnlyAfterWrite ==
    /\ \A k \in Decorations : \E j \in AcceptedWrites : j < k
    /\ (flow.phase \in {"returned", "raised"} /\ AcceptedWrites = {}) =>
          /\ Decorations = {}
          /\ flow.phase = "returned" => flow.count = 0
    /\ (flow.phase = "returned" /\ flow.block = <<>>) => flow.count = 0

\* C28 witness: a foreign append of USD, JPY by SheetWriter: the read, the
\* accepted write, then the common format and one format per currency
C28_Witness ==
    /\ flow.phase = "returned" /\ flow.class = "writer" /\ flow.is_foreign
    /\ flow.block = <<"USD", "JPY">>
    /\ flow.count = 2
    /\ AcceptedWrites = {2}
    /\ Decorations = {3, 4, 5}

\* a refused write of SheetWriter ends the call with 0 after two requests
RefusedWriteReportsZero ==
    /\ flow.phase = "returned" /\ flow.class = "writer"
    /\ flow.block = <<"USD", "JPY">>
    /\ flow.count = 0 /\ Len(flow.requests) = 2 /\ ~flow.requests[2].ok

-----------------------------------------------------------------------------
(* The shape of every extent (SpecScan) *)

\* the call of find_last_row_with_column_info has returned
ScanReturned == fetch # <<>>

\* C29: every extent find_last_row_with_column_info returns has a next
\* writable row >= 2 and a window with 1 <= start column <= end column,
\* for every grid and every way the two fetches can end.
C29_ExtentIsWellFormed ==
    ScanReturned =>
        /\ extent[1] >= 2
        /\ 1 <= extent[2]
        /\ extent[2] <= extent[3]

\* C29 witness: the last data row holds only a whitespace string, and the
\* scan returns the row after it with the default window 2..9.
C29_Witness ==
    /\ Scanned
    /\ rows = << <<V, V>>, <<NoCell, V, V>>, <<W>> >>
    /\ extent = <<4, 2, 9>>

\* the error path: a fetch raised and the scan returned (2, 2, 9)
ErrorPathReturnsDefault ==
    (ScanReturned /\ (fetch.metadata = "raises" \/ fetch.grid = "raises")) =>
        extent = <<2, 2, 9>>

\* a scan whose grid fetch raised has returned
ErrorPathTaken == ScanReturned /\ fetch.grid = "raises" /\ Len(rows) = 2 /\ extent = <<2, 2, 9>>

-----------------------------------------------------------------------------
(* Properties of the streaks (SpecStreak) *)

\* the records of streak.sorted_sells that count as wins when the value
\* compared is the field f of the record
WinsBy(f) == { i \in 1..Len(streak.sorted_sells) : streak.sorted_sells[i][f] > 0 }
LossesBy(f) == { i \in 1..Len(streak.sorted_sells) : streak.sorted_sells[i][f] <= 0 }

\* the length of the longest run of consecutive positions inside S
LongestRun(S) ==
    LET n == Len(streak.sorted_sells)
        lengths == { j - i + 1 : i \in 1..n, j \in 1..n } \cup {0}
    IN  CHOOSE k \in lengths :
          /\ k = 0 \/ \E i \in 1..(n - k + 1) : \A p \in i..(i + k - 1) : p \in S
          /\ \A m \in lengths : m > k => ~ \E i \in 1..(n - m + 1) : \A p \in i..(i + m - 1) : p \in S

\* the length of the run of positions inside S that ends the sequence
TrailingRun(S) ==
    LET n == Len(streak.sorted_sells)
    IN  CHOOSE k \in 0..n :
          /\ \A p \in (n - k + 1)..n : p \in S
          /\ k < n => (n - k) \notin S

StreaksBy(f) ==
    << LongestRun(WinsBy(f)), LongestRun(LossesBy(f)),
       TrailingRun(WinsBy(f)), TrailingRun(LossesBy(f)) >>

StreakShape ==
    /\ streak.result[3] = 0 \/ streak.result[4] = 0
    /\ streak.result[1] >= streak.result[3]
    /\ streak.result[2] >= streak.result[4]
    /\ streak.sorted_sells = <<>> => streak.result = <<0, 0, 0, 0>>

\* C30 as stated: _calc_streaks returns the longest run of records with
\* profit > 0, the longest run with profit <= 0, the trailing win run and the
\* trailing loss run; zero counts as a loss, at most one current counter is
\* non-zero, each maximum is >= its current counter, empty gives (0, 0, 0, 0).
C30_StreaksOfProfit ==
    streak.called => (streak.result = StreaksBy("profit") /\ StreakShape)

\* C30 amended: the same, with a win being a record whose won-denominated
\* realised profit (profit_krw) is > 0 and a loss one whose profit_krw <= 0.
C30_StreaksOfProfitKrw ==
    streak.called => (streak.result = StreaksBy("profit_krw") /\ StreakShape)

\* C30 witness: win, win, zero profit, win gives (2, 1, 1, 0): the zero
\* profit ends the first run as a loss.
C30_Witness ==
    /\ streak.called
    /\ Len(streak.sorted_sells) = 4
    /\ \A i \in 1..4 : streak.sorted_sells[i].profit_krw = (IF i = 3 THEN 0 ELSE 10000)
    /\ streak.result = <<2, 1, 1, 0>>

====
